---- MODULE Spec2Model ----
\* The APNG -> GIF / WebP conversion pipeline of godchu/blog-assets:
\*   apng2gif.v2.js  apngToGif (ffmpeg -> upng+gifwrap -> apng2gif cascade)
\*   part_003        convertApngToGif (upng + gifwrap implementation)
\*   apng2gif.js     convertApngToGif (apng2gif implementation)
\*   part_002        apngToWebpSibling / download (sharp WebP)
\* One conversion call is modelled as a state machine: pc is the await (or the
\* exception in flight) the call is currently at.  Texts are sequences of word
\* tokens; String.prototype.includes is contiguous-subsequence search on them.
EXTENDS Integers, Sequences, FiniteSets, TLC

\* ---------------------------------------------------------------- bounds
MaxFrames == 2          \* longest frame list / pixel-buffer list of an input
ImgW == 1               \* width of the decoded image
ImgH == 2               \* height of the decoded image

\* ---------------------------------------------------------------- values
Undef == -1             \* JS undefined where a number is expected
FrameLen == ImgW * ImgH * 4
Delays == {Undef, 0, 2500}                \* img.frames[i].delay values (ms)
RgbaLens == {Undef, FrameLen, FrameLen - 1} \* rgbaFrames[i].length values
Clamps == {Undef, 1000}                   \* maxFrameDelayMs (Undef: not given)

SeqsUpTo(S, n) == UNION {[1..k -> S] : k \in 0..n}

Max(a, b) == IF a >= b THEN a ELSE b
Min(a, b) == IF a <= b THEN a ELSE b
MinOf(S) == CHOOSE m \in S : \A x \in S : m <= x

Digits == <<"0", "1", "2", "3", "4", "5", "6", "7", "8", "9">>

RECURSIVE NumToks(_)
\* `${n}` of a non-negative integer, one token per decimal digit;
\* `${undefined}` is the single token "undefined".
NumToks(n) ==
  IF n = Undef THEN <<"undefined">>
  ELSE IF n < 10 THEN <<Digits[n + 1]>>
  ELSE NumToks(n \div 10) \o <<Digits[(n % 10) + 1]>>

\* String.prototype.includes on token sequences
Includes(text, pat) ==
  \E k \in 0..(Len(text) - Len(pat)) : SubSeq(text, k + 1, k + Len(pat)) = pat

\* `${e?.message || e}` : an Error with an empty message prints as "Error"
MsgOrE(e) == IF e.message # <<>> THEN e.message ELSE <<"Error">>

Error(m) == [message |-> m]
NoExc == [message |-> <<"<none>">>]

\* ---------------------------------------------------------------- ffmpeg stderr
FfPatNotImpl == <<"Not", "yet", "implemented", "in", "FFmpeg">>
FfPatInStream == <<"In-stream", "tag">>
FfPatPixFmt == <<"unspecified", "pixel", "format">>
FfPatCodecPar == <<"Could", "not", "find", "codec", "parameters">>
FfPatInvalid == <<"Invalid", "data", "found", "when", "processing", "input">>

ffmpegUnimplementedMissingCase(stderr) ==
  \/ Includes(stderr, FfPatNotImpl)
  \/ Includes(stderr, FfPatInStream)
  \/ Includes(stderr, FfPatPixFmt)
  \/ Includes(stderr, FfPatCodecPar)

ffmpegUnimplemented(stderr) ==
  \/ Includes(stderr, FfPatNotImpl)
  \/ Includes(stderr, FfPatInStream)
  \/ Includes(stderr, FfPatPixFmt)
  \/ Includes(stderr, FfPatCodecPar)
  \/ Includes(stderr, FfPatInvalid)

\* error-stream texts a failed ffmpeg run can leave
StderrTexts ==
  { <<"[apng]">> \o FfPatNotImpl \o <<"patches", "welcome">>,
    <<"[apng]">> \o FfPatInStream,
    <<"[apng]">> \o FfPatPixFmt,
    FfPatCodecPar \o <<"for", "stream", "0">>,
    <<"in.png:">> \o FfPatInvalid,
    <<"Invalid", "data", "found">>,
    <<"invalid", "data", "found", "when", "processing", "input">>,
    <<"not", "yet", "implemented">>,
    <<"in-stream", "tag">>,
    <<"Permission", "denied">> }

\* the rejection of execFile: e.stderr and e.message
FfmpegErrors ==
  {[stderr |-> t, message |-> <<"Command", "failed:", "ffmpeg">> \o t] : t \in StderrTexts}
  \cup {[stderr |-> <<>>, message |-> <<"spawn", "ffmpeg", "ENOENT">>],
        [stderr |-> <<>>, message |-> <<"Command", "failed:", "ffmpeg", "-i">> \o FfPatInStream],
        [stderr |-> <<>>, message |-> <<>>]}
NoFfErr == [stderr |-> <<"<none>">>, message |-> <<"<none>">>]

\* e?.stderr?.toString?.() || e?.message || ''
ErrText(e) == IF e.stderr # <<>> THEN e.stderr ELSE e.message

\* the Error thrown from the catch block of a pass ("palettegen" / "paletteuse")
FfThrown(pass, e) ==
  IF ffmpegUnimplemented(ErrText(e))
    THEN Error(<<"ffmpeg-not-implemented">>)
    ELSE Error(<<"ffmpeg", pass, "failed:">> \o ErrText(e))

\* ---------------------------------------------------------------- inputs
Entries == {"apngToGif", "convertApngToGif", "convertApngToGifA2g", "apngToWebpSibling"}
Strategies == <<"ffmpeg", "upng", "apng2gif">>

\* What fs.readFile / fetch delivers, described by what the decoder makes of it.
\* frame control data as UPNG reports it: delay (ms), and the raw APNG
\* delay_num / delay_den where the decoder leaves them
FrameMeta(d, num, den) == [delay |-> d, delayNum |-> num, delayDen |-> den]
GifFrameMetas == {FrameMeta(d, Undef, Undef) : d \in Delays}
WebpFrameMetas == {FrameMeta(d, num, den) : d \in {Undef, 0, 40}, num \in {Undef, 0, 1},
                                           den \in {Undef, 0, 100}}
OkFile(f, r) ==
  [sig |-> TRUE, decode |-> "ok", framesIsArray |-> TRUE, frames |-> f,
   rgbaThrows |-> FALSE, rgba |-> r]
OkFiles ==
  {OkFile(f, r) : f \in SeqsUpTo(GifFrameMetas, MaxFrames), r \in SeqsUpTo(RgbaLens, MaxFrames)}
\* files served to the WebP path: every timing shape, pixel buffers all whole
WebpFiles ==
  {OkFile(f, r) : f \in SeqsUpTo(WebpFrameMetas, MaxFrames),
                  r \in SeqsUpTo({FrameLen}, MaxFrames)}
  \cup {OkFile(<<>>, <<Undef>>)}
OddFile(s, d, a, t) ==
  [sig |-> s, decode |-> d, framesIsArray |-> a, frames |-> <<>>,
   rgbaThrows |-> t, rgba |-> <<FrameLen>>]
OddFiles ==
  {OddFile(FALSE, "throws", TRUE, FALSE), OddFile(FALSE, "ok", TRUE, FALSE),
   OddFile(TRUE, "throws", TRUE, FALSE), OddFile(TRUE, "nometa", TRUE, FALSE),
   OddFile(TRUE, "ok", TRUE, TRUE), OddFile(TRUE, "ok", FALSE, FALSE)}
Files == OkFiles \cup OddFiles
NoFile == OddFile(FALSE, "unread", FALSE, FALSE)

\* messages of errors raised by Node, the codecs and the apng2gif package
ReadErrors == {Error(<<"ENOENT:", "no", "such", "file", "or", "directory,", "open", "src">>)}
AccessErrors == {Error(<<"ENOENT:", "no", "such", "file", "or", "directory,", "access", "src">>)}
MkdirErrors == {Error(<<"EACCES:", "permission", "denied,", "mkdir", "dir">>)}
WriteErrors == {Error(<<"ENOSPC:", "no", "space", "left", "on", "device,", "write">>),
                Error(<<"EACCES:", "permission", "denied,", "open", "dest">>)}
CodecErrors == {Error(<<"unexpected", "end">>), Error(<<>>)}
A2gErrors == {Error(<<"Invalid", "APNG">>), Error(<<>>)}

VARIABLES
  entry,            \* the entry point that was called
  onFrameError,     \* opts.onFrameError
  maxFrameDelayMs,  \* opts.maxFrameDelayMs
  pc,               \* the await the call is suspended at / exception in flight
  dirExists,        \* the destination's parent directory exists
  dest,             \* content of the destination file
  dest0,            \* content of the destination file when the call started
  palette,          \* content of <dir>/___palette.tmp.png
  unlinkState,      \* fs.unlink(palette): "none", "pending", "done", "failed"
  ffErr,            \* rejection of the ffmpeg run whose catch block just ran
  exc,              \* the exception in flight
  result,           \* settlement of the promise returned by the entry point
  file,             \* the bytes read / fetched
  i,                \* loop index of the frame loop
  frames,           \* the GifFrame list being built
  delays,           \* the delay list handed to sharp
  pages,            \* number of frames stacked into the raw buffer for sharp
  \* history of the call (not read by the program)
  mkdirDone,        \* this call has completed creating the parent directory
  writeStarted,     \* files of the directory this call has started writing
  attempts,         \* strategies started, in order
  outcome,          \* per strategy: "none", "running", "failed", "ok"
  writers,          \* strategies that created or modified the destination
  lastErr,          \* the error the third strategy rejected with
  processed,        \* frame indices the frame loop has visited, in order
  encoded,          \* what was handed to the container encoder
  ffRuns,           \* the ffmpeg runs started, in order, each with its status
  apngFileAbs,      \* the source path given to a sibling resolver (tokens)
  outPath,          \* the destination path the resolver derived (tokens)
  cOut,             \* concurrent calls: outGifPath of each call
  cpc,              \* concurrent calls: the await each call is at
  cPalette,         \* concurrent calls: content of each palette file
  cUsed,            \* concurrent calls: the palette content each paletteuse run read
  cDest,            \* concurrent calls: content of each call's destination
  cUnlink,          \* concurrent calls: state of each call's un-awaited unlink
  cTouched,         \* concurrent calls: who wrote or removed each palette file
  results,          \* getStickerInfo: the scraped records, in page order
  map,              \* getStickerInfo: the Map's values, in insertion order
  scanned,          \* getStickerInfo: how many records the dedupe loop has taken
  stickers,         \* saveStickerPack: the input stickers (their ids)
  wpc,              \* pooled saveStickerPack: how many workers are not yet called, have returned
  idx,              \* pooled saveStickerPack: where the worker holding each index waits
  oneUrl,           \* sequential saveStickerPack: position in the sticker's URL list
  saved,            \* saveStickerPack: the saved entries (pooled: their number per index)
  failed,           \* saveStickerPack: the failed entries (pooled: their number per index)
  running,          \* pooled saveStickerPack: 1 while a worker runs synchronously, else 0
  ppc               \* saveStickerPack: where the call is

pathVars == <<apngFileAbs, outPath>>
concVars == <<cOut, cpc, cPalette, cUsed, cDest, cUnlink, cTouched>>
dedupeVars == <<results, map, scanned>>
packVars == <<stickers, wpc, idx, oneUrl, saved, failed, running, ppc>>
ioVars == <<entry, onFrameError, maxFrameDelayMs, dest0, pathVars, concVars, dedupeVars,
            packVars>>
fsVars == <<dirExists, dest, palette, unlinkState>>
decVars == <<file, i, frames, delays, pages>>
histVars == <<mkdirDone, writeStarted, attempts, outcome, writers, lastErr, processed, encoded>>
vars == <<ioVars, pc, fsVars, ffErr, exc, result, decVars, histVars, ffRuns>>

NoResult == [kind |-> "none", out |-> "", message |-> <<>>]
Resolved(o) == [kind |-> "resolved", out |-> o, message |-> <<>>]
Rejected(e) == [kind |-> "rejected", out |-> "", message |-> e.message]
NotEncoded == <<[bitmap |-> Undef, delayCentisecs |-> Undef]>>

\* no sibling resolver is running / no concurrent calls are running
NoPaths == apngFileAbs = <<>> /\ outPath = <<>>
NoConc ==
  /\ cOut = <<>> /\ cpc = <<>> /\ cPalette = <<>> /\ cUsed = <<>>
  /\ cDest = <<>> /\ cUnlink = <<>> /\ cTouched = <<>>

NoDedupe == results = <<>> /\ map = <<>> /\ scanned = 0
NoPack ==
  /\ stickers = <<>> /\ wpc = <<>> /\ idx = <<>> /\ saved = <<>> /\ failed = <<>>
  /\ oneUrl = 0 /\ running = 0 /\ ppc = "none"

FirstPc(e) ==
  CASE e = "apngToGif" -> "mkdir"
    [] e = "convertApngToGif" -> "cv_read"
    [] e = "convertApngToGifA2g" -> "ca_access"
    [] e = "apngToWebpSibling" -> "wp_fetch"

\* opts.onFrameError: 'throw' is the default, 'skip' the only other value the
\* code tests for; "fail" stands for any further value a caller passes
FrameErrorPolicies == {"throw", "skip", "fail"}

\* the entry points whose options carry onFrameError / maxFrameDelayMs
TakesGifOptions(e) == e \in {"apngToGif", "convertApngToGif"}

Init ==
  /\ entry \in Entries
  /\ onFrameError \in (IF TakesGifOptions(entry) THEN FrameErrorPolicies ELSE {"throw"})
  /\ maxFrameDelayMs \in (IF TakesGifOptions(entry) THEN Clamps ELSE {Undef})
  /\ pc = FirstPc(entry)
  /\ dirExists \in BOOLEAN
  /\ dest \in (IF dirExists THEN {"absent", "old"} ELSE {"absent"})
  /\ dest0 = dest
  /\ palette = "absent"
  /\ unlinkState = "none"
  /\ ffErr = NoFfErr
  /\ exc = NoExc
  /\ result = NoResult
  /\ file = NoFile
  /\ i = 0
  /\ frames = <<>>
  /\ delays = <<>>
  /\ pages = 0
  /\ mkdirDone = FALSE
  /\ writeStarted = {}
  /\ attempts = <<>>
  /\ outcome = [s \in {"ffmpeg", "upng", "apng2gif"} |-> "none"]
  /\ writers = {}
  /\ lastErr = NoExc
  /\ processed = <<>>
  /\ encoded = NotEncoded
  /\ ffRuns = <<>>
  /\ NoPaths
  /\ NoConc
  /\ NoDedupe
  /\ NoPack

\* ---------------------------------------------------------------- apngToGif
StartStrategy(s) ==
  /\ attempts' = Append(attempts, s)
  /\ outcome' = [outcome EXCEPT ![s] = "running"]

\* await fs.mkdir(dirname(out), {recursive: true}) resolved; tryFfmpeg starts
\* and runs to its first await (the palettegen run)
MkdirOk ==
  /\ pc = "mkdir"
  /\ dirExists' = TRUE
  /\ mkdirDone' = TRUE
  /\ StartStrategy("ffmpeg")
  /\ writeStarted' = writeStarted \cup {"palette"}
  /\ pc' = "ff_gen"
  /\ ffRuns' = <<[pass |-> "palettegen", status |-> "running"]>>
  /\ UNCHANGED <<ioVars, dest, palette, unlinkState, ffErr, exc, result, decVars,
                 writers, lastErr, processed, encoded>>

\* fs.mkdir rejected: line 155 is outside every try, the rejection propagates
MkdirFail ==
  /\ pc = "mkdir"
  /\ ~dirExists
  /\ \E e \in MkdirErrors : result' = Rejected(e)
  /\ pc' = "done"
  /\ UNCHANGED <<ioVars, ffRuns, fsVars, ffErr, exc, decVars, histVars>>


\* palettegen run exited 0: the palette exists; the paletteuse run is started
FfGenOk ==
  /\ pc = "ff_gen"
  /\ palette' = "present"
  /\ writeStarted' = writeStarted \cup {"dest"}
  /\ pc' = "ff_use"
  /\ ffRuns' = <<[pass |-> "palettegen", status |-> "ok"],
                [pass |-> "paletteuse", status |-> "running"]>>
  /\ UNCHANGED <<ioVars, dirExists, dest, unlinkState, ffErr, exc, result, decVars,
                 mkdirDone, attempts, outcome, writers, lastErr, processed, encoded>>

FfGenFailRunsPaletteuse ==
  /\ pc = "ff_gen"
  /\ \E left \in {palette, "partial"} : palette' = left
  /\ writeStarted' = writeStarted \cup {"dest"}
  /\ ffRuns' = <<[pass |-> "palettegen", status |-> "failed"],
                [pass |-> "paletteuse", status |-> "running"]>>
  /\ pc' = "ff_use"
  /\ UNCHANGED <<ioVars, dirExists, dest, unlinkState, ffErr, exc, result, decVars,
                 mkdirDone, attempts, outcome, writers, lastErr, processed, encoded>>

\* palettegen run failed: the first catch block classifies and throws; the
\* finally with the unlink belongs to the second try only.  The tool may or may
\* not have left a palette file behind.
FfGenFail ==
  /\ pc = "ff_gen"
  /\ \E e \in FfmpegErrors :
       /\ ffErr' = e
       /\ exc' = FfThrown("palettegen", e)
  /\ \E left \in {palette, "partial"} : palette' = left
  /\ outcome' = [outcome EXCEPT !["ffmpeg"] = "failed"]
  /\ pc' = "ff_thrown"
  /\ ffRuns' = [ffRuns EXCEPT ![Len(ffRuns)].status = "failed"]
  /\ UNCHANGED <<ioVars, dirExists, dest, unlinkState, result, decVars,
                 mkdirDone, writeStarted, attempts, writers, lastErr, processed, encoded>>

\* paletteuse run exited 0: ffmpeg has written the destination; finally fires
\* the (un-awaited) unlink; tryFfmpeg resolves and apngToGif returns {out}
FfUseOk ==
  /\ pc = "ff_use"
  /\ dest' = "ffmpeg"
  /\ writers' = writers \cup {"ffmpeg"}
  /\ unlinkState' = "pending"
  /\ outcome' = [outcome EXCEPT !["ffmpeg"] = "ok"]
  /\ result' = Resolved("dest")
  /\ pc' = "done"
  /\ ffRuns' = [ffRuns EXCEPT ![Len(ffRuns)].status = "ok"]
  /\ UNCHANGED <<ioVars, dirExists, palette, ffErr, exc, decVars,
                 mkdirDone, writeStarted, attempts, lastErr, processed, encoded>>

\* paletteuse run failed: the tool (-y out) may have created or truncated the
\* destination before failing; catch classifies, finally fires the unlink
FfUseFail ==
  /\ pc = "ff_use"
  /\ \E e \in FfmpegErrors :
       /\ ffErr' = e
       /\ exc' = FfThrown("paletteuse", e)
  /\ \E touched \in BOOLEAN :
       /\ dest' = IF touched THEN "ffmpeg-partial" ELSE dest
       /\ writers' = IF touched THEN writers \cup {"ffmpeg"} ELSE writers
  /\ unlinkState' = "pending"
  /\ outcome' = [outcome EXCEPT !["ffmpeg"] = "failed"]
  /\ pc' = "ff_thrown"
  /\ ffRuns' = [ffRuns EXCEPT ![Len(ffRuns)].status = "failed"]
  /\ UNCHANGED <<ioVars, dirExists, palette, result, decVars,
                 mkdirDone, writeStarted, attempts, lastErr, processed, encoded>>

\* fs.unlink(palette).catch(() => {}) settles, some time after it was fired
UnlinkSettles ==
  /\ unlinkState = "pending"
  /\ \/ /\ palette # "absent"
        /\ palette' = "absent"
        /\ unlinkState' = "done"
     \/ /\ palette' = palette
        /\ unlinkState' = "failed"
  /\ UNCHANGED <<ioVars, ffRuns, pc, dirExists, dest, ffErr, exc, result, decVars, histVars>>

CatchFfmpegSkipsUpng ==
  /\ pc = "ff_thrown"
  /\ exc' = NoExc
  /\ ffErr' = NoFfErr
  /\ StartStrategy("apng2gif")
  /\ writeStarted' = writeStarted \cup {"dest"}
  /\ pc' = "a2g"
  /\ UNCHANGED <<ioVars, ffRuns, fsVars, result, decVars, mkdirDone, writers, lastErr,
                 processed, encoded>>

\* catch (e) of step 1: warn, then tryUpngGifwrap starts and runs to readFile
CatchFfmpeg ==
  /\ pc = "ff_thrown"
  /\ exc' = NoExc
  /\ ffErr' = NoFfErr
  /\ StartStrategy("upng")
  /\ pc' = "upng_read"
  /\ UNCHANGED <<ioVars, ffRuns, fsVars, result, decVars, mkdirDone, writeStarted, writers,
                 lastErr, processed, encoded>>

\* ---------------------------------------------------------------- tryUpngGifwrap
frameCountOf(f) == IF f.framesIsArray THEN Len(f.frames) ELSE 0

\* Math.round(x / 10) for an integer x (round half towards +infinity)
RoundDiv10(x) == (x + 5) \div 10

toCS(ms) == Max(1, RoundDiv10(IF ms = Undef THEN 0 ELSE ms))

\* rgba is missing, or its length differs from w*h*4
BadRgba(f, k) == k > Len(f.rgba) \/ f.rgba[k] = Undef \/ f.rgba[k] # ImgW * ImgH * 4
RgbaLenOf(f, k) == IF k > Len(f.rgba) THEN Undef ELSE f.rgba[k]

DelayOfUnclamped(f, k, maxD) ==
  LET raw == IF k > Len(f.frames) THEN Undef ELSE f.frames[k].delay
      delayMs == IF raw = Undef THEN 0 ELSE raw
  IN delayMs

\* img.frames[k]?.delay || 0, then the optional clamp
DelayOf(f, k, maxD) ==
  LET raw == IF k > Len(f.frames) THEN Undef ELSE f.frames[k].delay
      delayMs == IF raw = Undef THEN 0 ELSE raw
  IN IF maxD # Undef THEN Min(delayMs, maxD) ELSE delayMs

\* frames.findIndex((fr) => !fr || !fr.bitmap), -1 if none
BadIndex(fs) ==
  IF \E k \in 1..Len(fs) : fs[k].bitmap = Undef
    THEN (CHOOSE k \in 1..Len(fs) :
            fs[k].bitmap = Undef /\ \A j \in 1..(k - 1) : fs[j].bitmap # Undef) - 1
    ELSE -1

UpngThrow(e) ==
  /\ exc' = e
  /\ outcome' = [outcome EXCEPT !["upng"] = "failed"]
  /\ pc' = "upng_thrown"

\* fs.readFile(apngPath) rejected
UpngReadFail ==
  /\ pc = "upng_read"
  /\ \E e \in ReadErrors : UpngThrow(e)
  /\ UNCHANGED <<ioVars, ffRuns, fsVars, ffErr, result, decVars,
                 mkdirDone, writeStarted, attempts, writers, lastErr, processed, encoded>>

\* fs.readFile(apngPath) resolved with the file's bytes
UpngReadOk ==
  /\ pc = "upng_read"
  /\ \E f \in Files : file' = f
  /\ pc' = "upng_check"
  /\ UNCHANGED <<ioVars, ffRuns, fsVars, ffErr, exc, result, i, frames, delays, pages, histVars>>

UpngGuardNoCountCheck(f, e) ==
  IF ~f.sig THEN Error(<<"not-a-png-signature">>)
  ELSE IF f.decode = "throws" THEN Error(<<"decode-failed:">> \o MsgOrE(e))
  ELSE IF f.decode # "ok" THEN Error(<<"invalid-meta">>)
  ELSE IF f.rgbaThrows THEN Error(<<"toRGBA8-failed:">> \o MsgOrE(e))
  ELSE NoExc

\* lines 73-97: the error thrown by the guards, NoExc if all pass
UpngGuard(f, e) ==
  IF ~f.sig THEN Error(<<"not-a-png-signature">>)
  ELSE IF f.decode = "throws" THEN Error(<<"decode-failed:">> \o MsgOrE(e))
  ELSE IF f.decode # "ok" THEN Error(<<"invalid-meta">>)
  ELSE IF f.rgbaThrows THEN Error(<<"toRGBA8-failed:">> \o MsgOrE(e))
  ELSE IF Len(f.rgba) # Max(1, frameCountOf(f))
    THEN Error(<<"rgba-mismatch:", "frames=">> \o NumToks(frameCountOf(f))
               \o <<"rgba=">> \o NumToks(Len(f.rgba)))
  ELSE NoExc

UpngCheck ==
  /\ pc = "upng_check"
  /\ \E e \in CodecErrors :
       IF UpngGuard(file, e) # NoExc
         THEN UpngThrow(UpngGuard(file, e))
         ELSE pc' = "upng_build" /\ UNCHANGED <<exc, outcome>>
  /\ UNCHANGED <<ioVars, ffRuns, fsVars, ffErr, result, decVars,
                 mkdirDone, writeStarted, attempts, writers, lastErr, processed, encoded>>

UpngStaticConvertedDelay ==
  /\ pc = "upng_build"
  /\ frameCountOf(file) = 0
  /\ IF BadRgba(file, 1)
       THEN /\ UpngThrow(Error(<<"static-bad-rgba">>))
            /\ UNCHANGED <<frames, encoded>>
       ELSE /\ frames' = <<[bitmap |-> 0,
                            delayCentisecs |-> toCS(DelayOf(file, 1, maxFrameDelayMs))]>>
            /\ encoded' = frames'
            /\ pc' = "upng_encode"
            /\ UNCHANGED <<exc, outcome>>
  /\ UNCHANGED <<ioVars, ffRuns, fsVars, ffErr, result, file, i, delays, pages,
                 mkdirDone, writeStarted, attempts, writers, lastErr, processed>>

\* frameCount === 0: one frame of 10 cs, then new Gif(...) and gif.encode()
UpngStatic ==
  /\ pc = "upng_build"
  /\ frameCountOf(file) = 0
  /\ IF BadRgba(file, 1)
       THEN /\ UpngThrow(Error(<<"static-bad-rgba">>))
            /\ UNCHANGED <<frames, encoded>>
       ELSE /\ frames' = <<[bitmap |-> 0, delayCentisecs |-> 10]>>
            /\ encoded' = frames'
            /\ pc' = "upng_encode"
            /\ UNCHANGED <<exc, outcome>>
  /\ UNCHANGED <<ioVars, ffRuns, fsVars, ffErr, result, file, i, delays, pages,
                 mkdirDone, writeStarted, attempts, writers, lastErr, processed>>

UpngFrameStepIgnoresPolicy ==
  /\ pc = "upng_build"
  /\ frameCountOf(file) > 0
  /\ i < frameCountOf(file)
  /\ processed' = Append(processed, i)
  /\ IF BadRgba(file, i + 1)
       THEN /\ i' = i + 1
            /\ UNCHANGED <<frames, exc, outcome, pc>>
       ELSE /\ frames' = Append(frames, [bitmap |-> i,
                           delayCentisecs |-> toCS(DelayOf(file, i + 1, maxFrameDelayMs))])
            /\ i' = i + 1
            /\ UNCHANGED <<exc, outcome, pc>>
  /\ UNCHANGED <<ioVars, ffRuns, fsVars, ffErr, result, file, delays, pages,
                 mkdirDone, writeStarted, attempts, writers, lastErr, encoded>>

\* one iteration of for (i = 0; i < frameCount; i++)
UpngFrameStep ==
  /\ pc = "upng_build"
  /\ frameCountOf(file) > 0
  /\ i < frameCountOf(file)
  /\ processed' = Append(processed, i)
  /\ IF BadRgba(file, i + 1)
       THEN IF onFrameError = "skip"
              THEN /\ i' = i + 1
                   /\ UNCHANGED <<frames, exc, outcome, pc>>
              ELSE /\ UpngThrow(Error(<<"build-frame[">> \o NumToks(i) \o <<"]-failed:",
                                        "bad-rgba-size(">> \o NumToks(RgbaLenOf(file, i + 1))
                                        \o <<")">>))
                   /\ UNCHANGED <<frames, i>>
       ELSE /\ frames' = Append(frames, [bitmap |-> i,
                           delayCentisecs |-> toCS(DelayOf(file, i + 1, maxFrameDelayMs))])
            /\ i' = i + 1
            /\ UNCHANGED <<exc, outcome, pc>>
  /\ UNCHANGED <<ioVars, ffRuns, fsVars, ffErr, result, file, delays, pages,
                 mkdirDone, writeStarted, attempts, writers, lastErr, encoded>>

UpngLoopEndNoCheck ==
  /\ pc = "upng_build"
  /\ frameCountOf(file) > 0
  /\ i = frameCountOf(file)
  /\ encoded' = frames
  /\ pc' = "upng_encode"
  /\ UNCHANGED <<exc, outcome>>
  /\ UNCHANGED <<ioVars, ffRuns, fsVars, ffErr, result, decVars,
                 mkdirDone, writeStarted, attempts, writers, lastErr, processed>>

\* loop exit: if (!frames.length) throw; else new Gif(frames) and gif.encode()
UpngLoopEnd ==
  /\ pc = "upng_build"
  /\ frameCountOf(file) > 0
  /\ i = frameCountOf(file)
  /\ IF Len(frames) = 0
       THEN /\ UpngThrow(Error(<<"no-valid-frames">>))
            /\ UNCHANGED encoded
       ELSE /\ encoded' = frames
            /\ pc' = "upng_encode"
            /\ UNCHANGED <<exc, outcome>>
  /\ UNCHANGED <<ioVars, ffRuns, fsVars, ffErr, result, decVars,
                 mkdirDone, writeStarted, attempts, writers, lastErr, processed>>

\* `encode-failed${hint}: ${e?.message || e}`
EncodeFailed(fs, e) ==
  Error(<<"encode-failed">>
        \o (IF BadIndex(fs) >= 0 THEN <<"(bad", "frame", "at">> \o NumToks(BadIndex(fs)) \o <<")">>
            ELSE <<>>)
        \o <<":">> \o MsgOrE(e))

\* gif.encode() resolved; fs.writeFile(outGifPath, ...) is started
UpngEncodeOk ==
  /\ pc = "upng_encode"
  /\ writeStarted' = writeStarted \cup {"dest"}
  /\ pc' = "upng_write"
  /\ UNCHANGED <<ioVars, ffRuns, fsVars, ffErr, exc, result, decVars,
                 mkdirDone, attempts, outcome, writers, lastErr, processed, encoded>>

UpngEncodeFailAfterOpen ==
  /\ pc = "upng_encode"
  /\ \E e \in CodecErrors : UpngThrow(EncodeFailed(frames, e))
  /\ dest' = "upng-partial"
  /\ writers' = writers \cup {"upng"}
  /\ UNCHANGED <<ioVars, ffRuns, dirExists, palette, unlinkState, ffErr, result, decVars,
                 mkdirDone, writeStarted, attempts, lastErr, processed, encoded>>

\* gif.encode() rejected
UpngEncodeFail ==
  /\ pc = "upng_encode"
  /\ \E e \in CodecErrors : UpngThrow(EncodeFailed(frames, e))
  /\ UNCHANGED <<ioVars, ffRuns, fsVars, ffErr, result, decVars,
                 mkdirDone, writeStarted, attempts, writers, lastErr, processed, encoded>>

\* fs.writeFile resolved; tryUpngGifwrap resolves and apngToGif returns {out}
UpngWriteOk ==
  /\ pc = "upng_write"
  /\ dest' = "upng"
  /\ writers' = writers \cup {"upng"}
  /\ outcome' = [outcome EXCEPT !["upng"] = "ok"]
  /\ result' = Resolved("dest")
  /\ pc' = "done"
  /\ UNCHANGED <<ioVars, ffRuns, dirExists, palette, unlinkState, ffErr, exc, decVars,
                 mkdirDone, writeStarted, attempts, lastErr, processed, encoded>>

\* fs.writeFile rejected: it opens the file with flag 'w' (create / truncate)
\* before writing, so the destination may already have been touched
UpngWriteFail ==
  /\ pc = "upng_write"
  /\ \E e \in WriteErrors : UpngThrow(EncodeFailed(frames, e))
  /\ \E touched \in BOOLEAN :
       /\ dest' = IF touched THEN "upng-partial" ELSE dest
       /\ writers' = IF touched THEN writers \cup {"upng"} ELSE writers
  /\ UNCHANGED <<ioVars, ffRuns, dirExists, palette, unlinkState, ffErr, result, decVars,
                 mkdirDone, writeStarted, attempts, lastErr, processed, encoded>>

CatchUpngRethrows ==
  /\ pc = "upng_thrown"
  /\ result' = Rejected(exc)
  /\ exc' = NoExc
  /\ pc' = "done"
  /\ UNCHANGED <<ioVars, ffRuns, fsVars, ffErr, decVars, histVars>>

\* catch (e) of step 2: warn, then tryApng2gif calls the apng2gif package
CatchUpng ==
  /\ pc = "upng_thrown"
  /\ exc' = NoExc
  /\ StartStrategy("apng2gif")
  /\ writeStarted' = writeStarted \cup {"dest"}
  /\ pc' = "a2g"
  /\ UNCHANGED <<ioVars, ffRuns, fsVars, ffErr, result, decVars, mkdirDone, writers, lastErr,
                 processed, encoded>>

\* apng2gif(...) resolved; apngToGif returns {out}
A2gOk ==
  /\ pc = "a2g"
  /\ dest' = "apng2gif"
  /\ writers' = writers \cup {"apng2gif"}
  /\ outcome' = [outcome EXCEPT !["apng2gif"] = "ok"]
  /\ result' = Resolved("dest")
  /\ pc' = "done"
  /\ UNCHANGED <<ioVars, ffRuns, dirExists, palette, unlinkState, ffErr, exc, decVars,
                 mkdirDone, writeStarted, attempts, lastErr, processed, encoded>>

A2gFailSwallowed ==
  /\ pc = "a2g"
  /\ \E e \in A2gErrors : lastErr' = e
  /\ result' = Resolved("undefined")
  /\ \E touched \in BOOLEAN :
       /\ dest' = IF touched THEN "apng2gif-partial" ELSE dest
       /\ writers' = IF touched THEN writers \cup {"apng2gif"} ELSE writers
  /\ outcome' = [outcome EXCEPT !["apng2gif"] = "failed"]
  /\ pc' = "done"
  /\ UNCHANGED <<ioVars, ffRuns, dirExists, palette, unlinkState, ffErr, exc, decVars,
                 mkdirDone, writeStarted, attempts, processed, encoded>>

\* apng2gif(...) rejected: catch (e) of step 3 throws the aggregated Error
A2gFail ==
  /\ pc = "a2g"
  /\ \E e \in A2gErrors :
       /\ lastErr' = e
       /\ result' = Rejected(Error(<<"[apng2gif]", "failed:">> \o MsgOrE(e)))
  /\ \E touched \in BOOLEAN :
       /\ dest' = IF touched THEN "apng2gif-partial" ELSE dest
       /\ writers' = IF touched THEN writers \cup {"apng2gif"} ELSE writers
  /\ outcome' = [outcome EXCEPT !["apng2gif"] = "failed"]
  /\ pc' = "done"
  /\ UNCHANGED <<ioVars, ffRuns, dirExists, palette, unlinkState, ffErr, exc, decVars,
                 mkdirDone, writeStarted, attempts, processed, encoded>>

ApngToGifNext ==
  \/ MkdirOk \/ MkdirFail
  \/ FfGenOk \/ FfGenFail \/ FfUseOk \/ FfUseFail \/ UnlinkSettles \/ CatchFfmpeg
  \/ UpngReadFail \/ UpngReadOk \/ UpngCheck \/ UpngStatic \/ UpngFrameStep \/ UpngLoopEnd
  \/ UpngEncodeOk \/ UpngEncodeFail \/ UpngWriteOk \/ UpngWriteFail \/ CatchUpng
  \/ A2gOk \/ A2gFail

\* ---------------------------------------------------------------- convertApngToGif (gifwrap)
\* catch (e) of convertApngToGif: every failure is rethrown wrapped
CvThrow(e) ==
  /\ result' = Rejected(Error(<<"[convertApngToGif]", "src", "->", "dest", "failed:">>
                              \o e.message))
  /\ pc' = "done"

toCentisTruncating(delayMs, maxD) ==
  LET d0 == IF delayMs = Undef THEN 0 ELSE delayMs
      ms == IF maxD # Undef THEN Min(d0, maxD) ELSE d0
  IN Max(1, ms \div 10)

toCentis(delayMs, maxD) ==
  LET d0 == IF delayMs = Undef THEN 0 ELSE delayMs
      ms == IF maxD # Undef THEN Min(d0, maxD) ELSE d0
  IN Max(1, RoundDiv10(ms))

\* (img.frames[i] || {}).delay || 0
CvDelayOf(f, k) ==
  LET raw == IF k > Len(f.frames) THEN Undef ELSE f.frames[k].delay
  IN IF raw = Undef THEN 0 ELSE raw

CvBadRgba(f, k) == k > Len(f.rgba) \/ f.rgba[k] = Undef \/ f.rgba[k] # ImgW * ImgH * 4

\* fs.readFile(apngPath) rejected
CvReadFail ==
  /\ pc = "cv_read"
  /\ \E e \in ReadErrors : CvThrow(e)
  /\ UNCHANGED <<ioVars, ffRuns, fsVars, ffErr, exc, decVars, histVars>>

\* fs.readFile(apngPath) resolved
CvReadOk ==
  /\ pc = "cv_read"
  /\ \E f \in Files : file' = f
  /\ pc' = "cv_check"
  /\ UNCHANGED <<ioVars, ffRuns, fsVars, ffErr, exc, result, i, frames, delays, pages, histVars>>

\* isPngSig, then lines 102-128 of apngArrayBufferToGifBuffer
CvGuard(f, e) ==
  IF ~f.sig THEN Error(<<"Not", "a", "PNG", "signature:", "src">>)
  ELSE IF f.decode = "throws" THEN Error(<<"decode()", "failed:">> \o MsgOrE(e))
  ELSE IF f.decode # "ok" THEN Error(<<"Invalid", "APNG", "meta", "(no", "width/height).">>)
  ELSE IF f.rgbaThrows THEN Error(<<"toRGBA8()", "failed:">> \o MsgOrE(e))
  ELSE IF Len(f.rgba) # Max(1, frameCountOf(f))
    THEN Error(<<"RGBA", "frames", "mismatch:", "frames=">> \o NumToks(frameCountOf(f))
               \o <<",", "rgba=">> \o NumToks(Len(f.rgba)))
  ELSE NoExc

CvCheck ==
  /\ pc = "cv_check"
  /\ \E e \in CodecErrors :
       IF CvGuard(file, e) # NoExc
         THEN CvThrow(CvGuard(file, e))
         ELSE pc' = "cv_build" /\ UNCHANGED result
  /\ UNCHANGED <<ioVars, ffRuns, fsVars, ffErr, exc, decVars, histVars>>

\* static PNG: one frame of 10 cs, then new Gif(...) and gif.encode()
CvStatic ==
  /\ pc = "cv_build"
  /\ frameCountOf(file) = 0
  /\ IF CvBadRgba(file, 1)
       THEN /\ CvThrow(Error(<<"Static", "frame", "invalid", "RGBA", "size.">>))
            /\ UNCHANGED <<frames, encoded>>
       ELSE /\ frames' = <<[bitmap |-> 0, delayCentisecs |-> 10]>>
            /\ encoded' = frames'
            /\ pc' = "cv_encode"
            /\ UNCHANGED result
  /\ UNCHANGED <<ioVars, ffRuns, fsVars, ffErr, exc, file, i, delays, pages,
                 mkdirDone, writeStarted, attempts, outcome, writers, lastErr, processed>>

\* one iteration of for (i = 0; i < frameCount; i++)
CvFrameStep ==
  /\ pc = "cv_build"
  /\ frameCountOf(file) > 0
  /\ i < frameCountOf(file)
  /\ processed' = Append(processed, i)
  /\ IF CvBadRgba(file, i + 1)
       THEN IF onFrameError = "skip"
              THEN /\ i' = i + 1
                   /\ UNCHANGED <<frames, result, pc>>
              ELSE /\ CvThrow(Error(<<"Building", "frame[">> \o NumToks(i) \o <<"]", "failed:",
                                      "frame[">> \o NumToks(i) \o <<"]", "RGBA", "size=">>
                                      \o NumToks(RgbaLenOf(file, i + 1)) \o <<",", "expected=">>
                                      \o NumToks(ImgW * ImgH * 4)))
                   /\ UNCHANGED <<frames, i>>
       ELSE /\ frames' = Append(frames, [bitmap |-> i,
                           delayCentisecs |-> toCentis(CvDelayOf(file, i + 1), maxFrameDelayMs)])
            /\ i' = i + 1
            /\ UNCHANGED <<result, pc>>
  /\ UNCHANGED <<ioVars, ffRuns, fsVars, ffErr, exc, file, delays, pages,
                 mkdirDone, writeStarted, attempts, outcome, writers, lastErr, encoded>>

\* loop exit: if (gifFrames.length === 0) throw; else new Gif and gif.encode()
CvLoopEnd ==
  /\ pc = "cv_build"
  /\ frameCountOf(file) > 0
  /\ i = frameCountOf(file)
  /\ IF Len(frames) = 0
       THEN /\ CvThrow(Error(<<"No", "valid", "frames", "to", "encode.">>))
            /\ UNCHANGED encoded
       ELSE /\ encoded' = frames
            /\ pc' = "cv_encode"
            /\ UNCHANGED result
  /\ UNCHANGED <<ioVars, ffRuns, fsVars, ffErr, exc, decVars,
                 mkdirDone, writeStarted, attempts, outcome, writers, lastErr, processed>>

\* `gifwrap encode() failed${hint}: ${e?.message || e}`
CvEncodeFailed(fs, e) ==
  Error(<<"gifwrap", "encode()", "failed">>
        \o (IF BadIndex(fs) >= 0
              THEN <<"(bitmap", "missing", "at", "frame">> \o NumToks(BadIndex(fs)) \o <<")">>
              ELSE <<>>)
        \o <<":">> \o MsgOrE(e))

\* gif.encode() resolved: the buffer is returned and ensureDir is awaited
CvEncodeOk ==
  /\ pc = "cv_encode"
  /\ pc' = "cv_mkdir"
  /\ UNCHANGED <<ioVars, ffRuns, fsVars, ffErr, exc, result, decVars, histVars>>

\* gif.encode() rejected
CvEncodeFail ==
  /\ pc = "cv_encode"
  /\ \E e \in CodecErrors : CvThrow(CvEncodeFailed(frames, e))
  /\ UNCHANGED <<ioVars, ffRuns, fsVars, ffErr, exc, decVars, histVars>>

\* ensureDir(dirname(gifPath)) resolved; fs.writeFile(gifPath, gifBuf) starts
CvMkdirOk ==
  /\ pc = "cv_mkdir"
  /\ dirExists' = TRUE
  /\ mkdirDone' = TRUE
  /\ writeStarted' = writeStarted \cup {"dest"}
  /\ pc' = "cv_write"
  /\ UNCHANGED <<ioVars, ffRuns, dest, palette, unlinkState, ffErr, exc, result, decVars,
                 attempts, outcome, writers, lastErr, processed, encoded>>

\* ensureDir rejected
CvMkdirFail ==
  /\ pc = "cv_mkdir"
  /\ ~dirExists
  /\ \E e \in MkdirErrors : CvThrow(e)
  /\ UNCHANGED <<ioVars, ffRuns, fsVars, ffErr, exc, decVars, histVars>>

\* fs.writeFile resolved; return {out: path.resolve(gifPath)}
CvWriteOk ==
  /\ pc = "cv_write"
  /\ dest' = "gifwrap"
  /\ result' = Resolved("dest")
  /\ pc' = "done"
  /\ UNCHANGED <<ioVars, ffRuns, dirExists, palette, unlinkState, ffErr, exc, decVars, histVars>>

\* fs.writeFile rejected, possibly after creating / truncating the file
CvWriteFail ==
  /\ pc = "cv_write"
  /\ \E e \in WriteErrors : CvThrow(e)
  /\ \E touched \in BOOLEAN : dest' = IF touched THEN "gifwrap-partial" ELSE dest
  /\ UNCHANGED <<ioVars, ffRuns, dirExists, palette, unlinkState, ffErr, exc, decVars, histVars>>

ConvertApngToGifNext ==
  \/ CvReadFail \/ CvReadOk \/ CvCheck \/ CvStatic \/ CvFrameStep \/ CvLoopEnd
  \/ CvEncodeOk \/ CvEncodeFail \/ CvMkdirOk \/ CvMkdirFail \/ CvWriteOk \/ CvWriteFail

\* ---------------------------------------------------------------- convertApngToGif (apng2gif)
CaThrow(e) ==
  /\ result' = Rejected(Error(<<"[convertApngToGif]", "Failed", "for", "src", "->", "dest:">>
                              \o e.message))
  /\ pc' = "done"

\* fs.access(apngPath) resolved; fs.mkdir is awaited
CaAccessOk ==
  /\ pc = "ca_access"
  /\ pc' = "ca_mkdir"
  /\ UNCHANGED <<ioVars, ffRuns, fsVars, ffErr, exc, result, decVars, histVars>>

\* fs.access(apngPath) rejected
CaAccessFail ==
  /\ pc = "ca_access"
  /\ \E e \in AccessErrors : CaThrow(e)
  /\ UNCHANGED <<ioVars, ffRuns, fsVars, ffErr, exc, decVars, histVars>>

\* fs.mkdir resolved; apng2gif(apngPath, gifPath, opts) is called
CaMkdirOk ==
  /\ pc = "ca_mkdir"
  /\ dirExists' = TRUE
  /\ mkdirDone' = TRUE
  /\ writeStarted' = writeStarted \cup {"dest"}
  /\ pc' = "ca_a2g"
  /\ UNCHANGED <<ioVars, ffRuns, dest, palette, unlinkState, ffErr, exc, result, decVars,
                 attempts, outcome, writers, lastErr, processed, encoded>>

\* fs.mkdir rejected
CaMkdirFail ==
  /\ pc = "ca_mkdir"
  /\ ~dirExists
  /\ \E e \in MkdirErrors : CaThrow(e)
  /\ UNCHANGED <<ioVars, ffRuns, fsVars, ffErr, exc, decVars, histVars>>

\* apng2gif resolved; return {out: path.resolve(gifPath)}
CaA2gOk ==
  /\ pc = "ca_a2g"
  /\ dest' = "apng2gif"
  /\ result' = Resolved("dest")
  /\ pc' = "done"
  /\ UNCHANGED <<ioVars, ffRuns, dirExists, palette, unlinkState, ffErr, exc, decVars, histVars>>

\* apng2gif rejected
CaA2gFail ==
  /\ pc = "ca_a2g"
  /\ \E e \in A2gErrors : CaThrow(e)
  /\ \E touched \in BOOLEAN : dest' = IF touched THEN "apng2gif-partial" ELSE dest
  /\ UNCHANGED <<ioVars, ffRuns, dirExists, palette, unlinkState, ffErr, exc, decVars, histVars>>

ConvertApngToGifA2gNext ==
  \/ CaAccessOk \/ CaAccessFail \/ CaMkdirOk \/ CaMkdirFail \/ CaA2gOk \/ CaA2gFail

\* ---------------------------------------------------------------- apngToWebpSibling / download
HttpErrors == {Error(<<"HTTP", "404", "fetching", "url">>), Error(<<"HTTP", "500", "fetching", "url">>)}
NetErrors == {Error(<<"fetch", "failed">>)}
BodyErrors == {Error(<<"terminated">>)}

\* download has no try / catch: its promise rejects with the raw error
WpThrow(e) ==
  /\ result' = Rejected(e)
  /\ pc' = "done"

\* Math.round(a / b) for integers a >= 0, b > 0
RoundDiv(a, b) == (2 * a + b) \div (2 * b)

\* the two non-finite results of a JS division by zero: 0/0 and x/0 for x > 0.
\* NaN is outside the numbers' order; Infinity is above every delay.
NaN == -2
Infinity == 1000000000

\* lines 22-31: the delay of one frame in ms; Math.round(NaN) and
\* Math.max(10, NaN) are NaN
WpDelay(f) ==
  LET num == IF f.delayNum = Undef THEN 1 ELSE f.delayNum
      den == IF f.delayDen = Undef THEN 10 ELSE f.delayDen
      ms == IF f.delay # Undef THEN f.delay
            ELSE IF den = 0 THEN (IF num = 0 THEN NaN ELSE Infinity)
            ELSE RoundDiv(num * 1000, den)
  IN IF ms = NaN THEN NaN ELSE Max(10, ms)

\* fetch(url) rejected
WpFetchFail ==
  /\ pc = "wp_fetch"
  /\ \E e \in NetErrors : WpThrow(e)
  /\ UNCHANGED <<ioVars, ffRuns, fsVars, ffErr, exc, decVars, histVars>>

\* fetch(url) resolved with !res.ok
WpFetchNotOk ==
  /\ pc = "wp_fetch"
  /\ \E e \in HttpErrors : WpThrow(e)
  /\ UNCHANGED <<ioVars, ffRuns, fsVars, ffErr, exc, decVars, histVars>>

\* fetch(url) resolved with res.ok; res.arrayBuffer() is awaited
WpFetchOk ==
  /\ pc = "wp_fetch"
  /\ pc' = "wp_body"
  /\ UNCHANGED <<ioVars, ffRuns, fsVars, ffErr, exc, result, decVars, histVars>>

\* res.arrayBuffer() rejected
WpBodyFail ==
  /\ pc = "wp_body"
  /\ \E e \in BodyErrors : WpThrow(e)
  /\ UNCHANGED <<ioVars, ffRuns, fsVars, ffErr, exc, decVars, histVars>>

\* res.arrayBuffer() resolved
WpBodyOk ==
  /\ pc = "wp_body"
  /\ \E f \in WebpFiles \cup OddFiles : file' = f
  /\ pc' = "wp_decode"
  /\ UNCHANGED <<ioVars, ffRuns, fsVars, ffErr, exc, result, i, frames, delays, pages, histVars>>

\* lines 16-38: the error the synchronous part throws, NoExc if none
WpGuard(f, e) ==
  IF f.decode = "throws" THEN e
  ELSE IF f.rgbaThrows THEN e
  ELSE IF ~f.framesIsArray THEN Error(<<"TypeError">>)
  ELSE IF f.decode # "ok" THEN Error(<<"ERR_INVALID_ARG_VALUE">>)
  ELSE IF \E k \in 1..Len(f.rgba) : f.rgba[k] = Undef THEN Error(<<"TypeError">>)
  ELSE NoExc

\* decode, toRGBA8, delays, stacking; then sharp(...).webp(...).toFile(wPath)
WpDecode ==
  /\ pc = "wp_decode"
  /\ \E e \in CodecErrors :
       IF WpGuard(file, e) # NoExc
         THEN /\ WpThrow(WpGuard(file, e))
              /\ UNCHANGED <<delays, pages, writeStarted>>
         ELSE /\ delays' = [k \in 1..Len(file.frames) |-> WpDelay(file.frames[k])]
              /\ pages' = Len(file.rgba)
              /\ writeStarted' = writeStarted \cup {"dest"}
              /\ pc' = "wp_write"
              /\ UNCHANGED result
  /\ UNCHANGED <<ioVars, ffRuns, fsVars, ffErr, exc, file, i, frames,
                 mkdirDone, attempts, outcome, writers, lastErr, processed, encoded>>

\* toFile resolved: download returns undefined
WpWriteOk ==
  /\ pc = "wp_write"
  /\ dirExists
  /\ dest' = "webp"
  /\ result' = Resolved("undefined")
  /\ pc' = "done"
  /\ UNCHANGED <<ioVars, ffRuns, dirExists, palette, unlinkState, ffErr, exc, decVars, histVars>>

\* toFile rejected (always, when the directory does not exist)
WpWriteFail ==
  /\ pc = "wp_write"
  /\ \E e \in WriteErrors : WpThrow(e)
  /\ \E touched \in (IF dirExists THEN BOOLEAN ELSE {FALSE}) :
       dest' = IF touched THEN "webp-partial" ELSE dest
  /\ UNCHANGED <<ioVars, ffRuns, dirExists, palette, unlinkState, ffErr, exc, decVars, histVars>>

ApngToWebpSiblingNext ==
  \/ WpFetchFail \/ WpFetchNotOk \/ WpFetchOk \/ WpBodyFail \/ WpBodyOk \/ WpDecode
  \/ WpWriteOk \/ WpWriteFail

Next ==
  \/ ApngToGifNext
  \/ ConvertApngToGifNext
  \/ ConvertApngToGifA2gNext
  \/ ApngToWebpSiblingNext

Spec == Init /\ [][Next]_vars

\* ------------------------------------------- the delay conversion on its own
\* One frame of every duration in DelayInputs, under every clamp in
\* ClampInputs, is converted by the frame loop's delay code of each in-process
\* encoder.
MaxDelayMs == 30
DelayInputs == {Undef, 2500} \cup 0..MaxDelayMs
ClampInputs == {Undef, 0, 4, 5, 14, 15, 1000}

\* nothing on disk has been touched and no call is in flight
AtRest ==
  /\ dirExists = TRUE
  /\ dest = "absent"
  /\ dest0 = dest
  /\ palette = "absent"
  /\ unlinkState = "none"
  /\ ffErr = NoFfErr
  /\ exc = NoExc
  /\ result = NoResult
  /\ i = 0
  /\ frames = <<>>
  /\ delays = <<>>
  /\ pages = 0
  /\ mkdirDone = FALSE
  /\ writeStarted = {}
  /\ attempts = <<>>
  /\ outcome = [s \in {"ffmpeg", "upng", "apng2gif"} |-> "none"]
  /\ writers = {}
  /\ lastErr = NoExc
  /\ processed = <<>>
  /\ encoded = NotEncoded
  /\ ffRuns = <<>>

DelayInit ==
  /\ entry \in {"apngToGif", "convertApngToGif"}
  /\ onFrameError = "throw"
  /\ maxFrameDelayMs \in ClampInputs
  /\ file \in {OkFile(<<FrameMeta(d, Undef, Undef)>>, <<FrameLen>>) : d \in DelayInputs}
  /\ pc = "delay_in"
  /\ AtRest
  /\ NoPaths
  /\ NoConc
  /\ NoDedupe
  /\ NoPack

\* apng2gif.v2.js:109-111: delayMs, d, toCS(d)
ToCSStep ==
  /\ pc = "delay_in"
  /\ entry = "apngToGif"
  /\ frames' = <<[bitmap |-> 0,
                  delayCentisecs |-> toCS(DelayOf(file, 1, maxFrameDelayMs))]>>
  /\ pc' = "delay_out"
  /\ UNCHANGED <<ioVars, ffRuns, fsVars, ffErr, exc, result, file, i, delays, pages, histVars>>

\* part_003:149: toCentis(f.delay || 0, maxFrameDelayMs)
ToCentisStep ==
  /\ pc = "delay_in"
  /\ entry = "convertApngToGif"
  /\ frames' = <<[bitmap |-> 0,
                  delayCentisecs |-> toCentis(CvDelayOf(file, 1), maxFrameDelayMs)]>>
  /\ pc' = "delay_out"
  /\ UNCHANGED <<ioVars, ffRuns, fsVars, ffErr, exc, result, file, i, delays, pages, histVars>>

DelayNext == ToCSStep \/ ToCentisStep

DelaySpec == DelayInit /\ [][DelayNext]_vars

\* ------------------------------------------------------ the sibling resolvers
\* Paths are sequences of tokens: "/" separates segments, "." is the dot, every
\* other token is a non-empty run of characters holding neither.
MaxNameLen == 5
MaxDepth == 2
NameToks == {"foo", ".", "png"}
DirSegs == {<<"d">>, <<"d", ".", "v">>}

\* index of the last / first occurrence of token t in s, 0 if none
LastIndexOf(s, t) ==
  IF \E k \in 1..Len(s) : s[k] = t
    THEN CHOOSE k \in 1..Len(s) : s[k] = t /\ \A j \in (k + 1)..Len(s) : s[j] # t
    ELSE 0
FirstIndexOf(s, t) ==
  IF \E k \in 1..Len(s) : s[k] = t
    THEN CHOOSE k \in 1..Len(s) : s[k] = t /\ \A j \in 1..(k - 1) : s[j] # t
    ELSE 0

\* path.dirname of a path without trailing slash
dirname(p) ==
  LET k == LastIndexOf(p, "/")
  IN IF k = 0 THEN <<".">> ELSE IF k = 1 THEN <<"/">> ELSE SubSeq(p, 1, k - 1)

\* the last segment of p
LastSegment(p) == SubSeq(p, LastIndexOf(p, "/") + 1, Len(p))

extnameFromFirstDot(p) ==
  LET b == LastSegment(p)
      j == FirstIndexOf(b, ".")
  IN IF j = 0 \/ j = 1 \/ b = <<".", ".">> THEN <<>> ELSE SubSeq(b, j, Len(b))

\* path.extname: from the last dot of the last segment to its end; empty when
\* there is no dot, when the last dot is the segment's first character, and
\* for the segment ".."
extname(p) ==
  LET b == LastSegment(p)
      j == LastIndexOf(b, ".")
  IN IF j = 0 \/ j = 1 \/ b = <<".", ".">> THEN <<>> ELSE SubSeq(b, j, Len(b))

\* path.basename(p, ext): the last segment, without ext when it ends with ext
\* and is more than ext
basename(p, ext) ==
  LET b == LastSegment(p)
      n == Len(b) - Len(ext)
  IN IF ext # <<>> /\ ext = p THEN <<>>
     ELSE IF ext # <<>> /\ n > 0 /\ SubSeq(b, n + 1, Len(b)) = ext THEN SubSeq(b, 1, n)
     ELSE b

RECURSIVE SplitSlash(_)
\* p.split('/')
SplitSlash(p) ==
  LET k == FirstIndexOf(p, "/")
  IN IF k = 0 THEN <<p>>
     ELSE <<SubSeq(p, 1, k - 1)>> \o SplitSlash(SubSeq(p, k + 1, Len(p)))

RECURSIVE NormStack(_, _, _, _)
\* the segments that path.normalize keeps: empty and "." segments are
\* dropped, ".." removes the segment before it (at the root it is dropped)
NormStack(segs, k, st, abs) ==
  IF k > Len(segs) THEN st
  ELSE LET sg == segs[k]
       IN IF sg = <<>> \/ sg = <<".">> THEN NormStack(segs, k + 1, st, abs)
          ELSE IF sg = <<".", ".">>
            THEN IF st # <<>> /\ st[Len(st)] # <<".", ".">>
                   THEN NormStack(segs, k + 1, SubSeq(st, 1, Len(st) - 1), abs)
                 ELSE IF abs THEN NormStack(segs, k + 1, st, abs)
                 ELSE NormStack(segs, k + 1, Append(st, sg), abs)
          ELSE NormStack(segs, k + 1, Append(st, sg), abs)

RECURSIVE JoinSlash(_)
JoinSlash(st) ==
  IF st = <<>> THEN <<>>
  ELSE IF Len(st) = 1 THEN st[1]
  ELSE st[1] \o <<"/">> \o JoinSlash(SubSeq(st, 2, Len(st)))

\* path.normalize of a path without trailing slash
normalize(p) ==
  LET abs == p # <<>> /\ p[1] = "/"
      body == JoinSlash(NormStack(SplitSlash(p), 1, <<>>, abs))
  IN IF abs THEN <<"/">> \o body
     ELSE IF body = <<>> THEN <<".">> ELSE body

\* path.join(a, b)
join(a, b) == normalize(a \o <<"/">> \o b)

SiblingResolvers == {"apngToGifSibling", "convertApngVariantToGif", "apngToWebpSibling"}
TargetExt(r) == IF r = "apngToWebpSibling" THEN "webp" ELSE "gif"

\* the three lines every resolver starts with: dir, base, join(dir, `${base}.ext`)
SiblingOf(path, target) ==
  LET dir == dirname(path)
      base == basename(path, extname(path))
  IN join(dir, base \o <<".", target>>)

\* file names: non-empty, not "." and not ".."
FileNames == SeqsUpTo(NameToks, MaxNameLen) \ {<<>>, <<".">>, <<".", ".">>}

RECURSIVE DirsOfDepth(_)
\* normalized absolute directories of exactly n segments, without the final slash
DirsOfDepth(n) ==
  IF n = 0 THEN {<<>>}
  ELSE {d \o <<"/">> \o sg : d \in DirsOfDepth(n - 1), sg \in DirSegs}
SourcePaths ==
  {d \o <<"/">> \o n : d \in UNION {DirsOfDepth(k) : k \in 0..MaxDepth}, n \in FileNames}

ResolverInit ==
  /\ entry \in SiblingResolvers
  /\ onFrameError = "throw"
  /\ maxFrameDelayMs = Undef
  /\ file = NoFile
  /\ pc = "sib_in"
  /\ AtRest
  /\ apngFileAbs \in SourcePaths
  /\ outPath = <<>>
  /\ NoConc
  /\ NoDedupe
  /\ NoPack

\* dir, base and the joined destination path are computed
SiblingResolve ==
  /\ pc \in {"sib_in", "sib_again"}
  /\ outPath' = SiblingOf(apngFileAbs, TargetExt(entry))
  /\ pc' = IF pc = "sib_in" THEN "sib_out" ELSE "sib_out_again"
  /\ UNCHANGED <<entry, onFrameError, maxFrameDelayMs, dest0, apngFileAbs, concVars, dedupeVars, packVars, ffRuns, fsVars,
                 ffErr, exc, result, decVars, histVars>>

\* the caller hands the derived path to the same resolver
ResolveOutput ==
  /\ pc = "sib_out"
  /\ apngFileAbs' = outPath
  /\ outPath' = <<>>
  /\ pc' = "sib_again"
  /\ UNCHANGED <<entry, onFrameError, maxFrameDelayMs, dest0, concVars, dedupeVars, packVars, ffRuns, fsVars,
                 ffErr, exc, result, decVars, histVars>>

ResolverNext == SiblingResolve \/ ResolveOutput

ResolverSpec == ResolverInit /\ [][ResolverNext]_vars

\* ------------------------------------------- two concurrent calls of apngToGif
\* Two calls run on one event loop, each for its own source and its own
\* destination; their awaits interleave freely.  Each call is followed through
\* tryFfmpeg; the two later strategies, which use no palette file, are one step.
Procs == {"p", "q"}
ConcDirs == {<<"/", "d">>, <<"/", "d", "/", "e">>, <<"/", "v">>}
ConcNames == [p |-> <<"a", ".", "gif">>, q |-> <<"b", ".", "gif">>]
PaletteName == <<"___palette", ".", "tmp", ".", "png">>

PalettePathInParent(out) == join(dirname(dirname(out)), PaletteName)

PalettePathPerOutput(out) == join(dirname(out), basename(out, <<>>) \o <<".">> \o PaletteName)

\* lines 31-32: dir = path.dirname(outGifPath); palette = path.join(dir, '___palette.tmp.png')
PalettePath(out) == join(dirname(out), PaletteName)

OutPaths == {d \o <<"/">> \o ConcNames[p] : d \in ConcDirs, p \in Procs}
PalettePaths == {PalettePath(o) : o \in OutPaths}
NoDest == [by |-> "none", palette |-> "none"]

ConcInit ==
  /\ entry = "apngToGif"
  /\ onFrameError = "throw"
  /\ maxFrameDelayMs = Undef
  /\ file = NoFile
  /\ pc = "concurrent"
  /\ AtRest
  /\ NoPaths
  /\ NoDedupe
  /\ NoPack
  /\ cOut \in {[p \in Procs |-> d[p] \o <<"/">> \o ConcNames[p]] : d \in [Procs -> ConcDirs]}
  /\ cpc = [p \in Procs |-> "mkdir"]
  /\ cPalette = [f \in PalettePaths |-> "absent"]
  /\ cUsed = [p \in Procs |-> "none"]
  /\ cDest = [p \in Procs |-> NoDest]
  /\ cUnlink = [p \in Procs |-> "none"]
  /\ cTouched = [f \in PalettePaths |-> {}]

ConcFrame == UNCHANGED <<entry, onFrameError, maxFrameDelayMs, dest0, pathVars, dedupeVars, packVars, cOut, pc,
                         fsVars, ffErr, exc, result, decVars, histVars, ffRuns>>

\* fs.mkdir resolved; the palettegen run is started
CMkdir(p) ==
  /\ cpc[p] = "mkdir"
  /\ cpc' = [cpc EXCEPT ![p] = "ff_gen"]
  /\ UNCHANGED <<cPalette, cUsed, cDest, cUnlink, cTouched>>
  /\ ConcFrame

\* palettegen exited 0: it has written its palette file (-y palette)
CGenOk(p) ==
  /\ cpc[p] = "ff_gen"
  /\ cPalette' = [cPalette EXCEPT ![PalettePath(cOut[p])] = p]
  /\ cTouched' = [cTouched EXCEPT ![PalettePath(cOut[p])] = @ \cup {p}]
  /\ cpc' = [cpc EXCEPT ![p] = "ff_use"]
  /\ UNCHANGED <<cUsed, cDest, cUnlink>>
  /\ ConcFrame

\* palettegen failed: tryFfmpeg throws, the next strategies run
CGenFail(p) ==
  /\ cpc[p] = "ff_gen"
  /\ cpc' = [cpc EXCEPT ![p] = "fallback"]
  /\ UNCHANGED <<cPalette, cUsed, cDest, cUnlink, cTouched>>
  /\ ConcFrame

\* the paletteuse run opens its inputs: it reads what the palette path holds
CUseStart(p) ==
  /\ cpc[p] = "ff_use"
  /\ cUsed' = [cUsed EXCEPT ![p] = cPalette[PalettePath(cOut[p])]]
  /\ cpc' = [cpc EXCEPT ![p] = "ff_use_run"]
  /\ UNCHANGED <<cPalette, cDest, cUnlink, cTouched>>
  /\ ConcFrame

\* paletteuse exited 0: the destination holds a GIF quantized with the palette
\* it read; finally fires the unlink; apngToGif returns
CUseOk(p) ==
  /\ cpc[p] = "ff_use_run"
  /\ cUsed[p] # "absent"
  /\ cDest' = [cDest EXCEPT ![p] = [by |-> "ffmpeg", palette |-> cUsed[p]]]
  /\ cUnlink' = [cUnlink EXCEPT ![p] = "pending"]
  /\ cpc' = [cpc EXCEPT ![p] = "done"]
  /\ UNCHANGED <<cPalette, cUsed, cTouched>>
  /\ ConcFrame

\* paletteuse failed (always, when its palette input is missing); finally
\* fires the unlink; the next strategies run
CUseFail(p) ==
  /\ cpc[p] = "ff_use_run"
  /\ cUnlink' = [cUnlink EXCEPT ![p] = "pending"]
  /\ cpc' = [cpc EXCEPT ![p] = "fallback"]
  /\ UNCHANGED <<cPalette, cUsed, cDest, cTouched>>
  /\ ConcFrame

\* the un-awaited fs.unlink(palette) settles
CUnlinkSettles(p) ==
  /\ cUnlink[p] = "pending"
  /\ cPalette' = [cPalette EXCEPT ![PalettePath(cOut[p])] = "absent"]
  /\ cTouched' = [cTouched EXCEPT ![PalettePath(cOut[p])] = @ \cup {p}]
  /\ cUnlink' = [cUnlink EXCEPT ![p] = "done"]
  /\ UNCHANGED <<cpc, cUsed, cDest>>
  /\ ConcFrame

\* tryUpngGifwrap or tryApng2gif wrote the destination
CFallbackOk(p) ==
  /\ cpc[p] = "fallback"
  /\ cDest' = [cDest EXCEPT ![p] = [by |-> "fallback", palette |-> "none"]]
  /\ cpc' = [cpc EXCEPT ![p] = "done"]
  /\ UNCHANGED <<cPalette, cUsed, cUnlink, cTouched>>
  /\ ConcFrame

\* both later strategies failed: apngToGif rejects
CFallbackFail(p) ==
  /\ cpc[p] = "fallback"
  /\ cpc' = [cpc EXCEPT ![p] = "rejected"]
  /\ UNCHANGED <<cPalette, cUsed, cDest, cUnlink, cTouched>>
  /\ ConcFrame

ConcNext ==
  \E p \in Procs :
    \/ CMkdir(p) \/ CGenOk(p) \/ CGenFail(p) \/ CUseStart(p) \/ CUseOk(p) \/ CUseFail(p)
    \/ CUnlinkSettles(p) \/ CFallbackOk(p) \/ CFallbackFail(p)

ConcSpec == ConcInit /\ [][ConcNext]_vars

\* ------------------------------------------- the dedupe step of getStickerInfo
\* Every sequence of up to MaxRecords scraped records over the ids StickerIds
\* is run through the for-of loop over results.  A record's url is its
\* position on the page, so that two records of one id and type differ.
MaxRecords == 4
StickerIds == {"11", "22", "33"}
StickerTypes == {"STATIC", "ANIMATED"}
ScrapedResults ==
  UNION {{[k \in 1..n |-> [id |-> f[k][1], type |-> f[k][2], url |-> k]] :
            f \in [1..n -> StickerIds \X StickerTypes]} : n \in 0..MaxRecords}

\* position of id's entry in the Map's values, 0 for map.get(id) === undefined
MapIndex(m, id) ==
  IF \E k \in 1..Len(m) : m[k].id = id THEN CHOOSE k \in 1..Len(m) : m[k].id = id ELSE 0

\* map.set(item.id, item): a new key goes last, an existing key keeps its place
MapSet(m, item) ==
  IF MapIndex(m, item.id) = 0 THEN Append(m, item)
  ELSE [m EXCEPT ![MapIndex(m, item.id)] = item]

DedupeInit ==
  /\ entry = "getStickerInfo"
  /\ onFrameError = "throw"
  /\ maxFrameDelayMs = Undef
  /\ file = NoFile
  /\ pc = "dd_loop"
  /\ AtRest
  /\ NoPaths
  /\ NoConc
  /\ NoPack
  /\ results \in ScrapedResults
  /\ map = <<>>
  /\ scanned = 0

DedupeFrame == UNCHANGED <<entry, onFrameError, maxFrameDelayMs, dest0, pathVars, concVars,
                           packVars, results, ffRuns, fsVars, ffErr, exc, result, decVars, histVars>>

DedupeStepLastWins ==
  /\ pc = "dd_loop"
  /\ scanned < Len(results)
  /\ map' = MapSet(map, results[scanned + 1])
  /\ scanned' = scanned + 1
  /\ pc' = pc
  /\ DedupeFrame

\* one iteration of for (const item of results)
DedupeStep ==
  /\ pc = "dd_loop"
  /\ scanned < Len(results)
  /\ LET item == results[scanned + 1]
         at == MapIndex(map, item.id)
     IN map' = IF at = 0 THEN MapSet(map, item)
               ELSE IF map[at].type = "STATIC" /\ item.type = "ANIMATED" THEN MapSet(map, item)
               ELSE map
  /\ scanned' = scanned + 1
  /\ pc' = pc
  /\ DedupeFrame

\* return Array.from(map.values())
DedupeReturn ==
  /\ pc = "dd_loop"
  /\ scanned = Len(results)
  /\ pc' = "dd_returned"
  /\ UNCHANGED <<map, scanned>>
  /\ DedupeFrame

DedupeNext == DedupeStep \/ DedupeReturn

DedupeSpec == DedupeInit /\ [][DedupeNext]_vars

\* --------------------------------------------- the pooled saveStickerPack
\* part_001:231-276.  Six workers share the counter i.  A worker runs without
\* interruption from one await to the next: the loop test, idx = i++, the URL
\* parsing and the call of fetch are one step, and so is everything from the
\* settling of an await to the next await.  Promise.all starts the workers in
\* order, each running up to its first await before the next one starts.
\* The workers are six calls of one closure that ignores its arguments: a
\* worker is told from another only by the index it holds, so the state keeps,
\* for every index, where the worker holding it waits, and counts the workers
\* that hold none.
concurrency == 6
MaxStickers == 7

PoolInit ==
  /\ entry = "saveStickerPack"
  /\ onFrameError = "throw"
  /\ maxFrameDelayMs = Undef
  /\ file = NoFile
  /\ pc = "pool"
  /\ AtRest
  /\ NoPaths
  /\ NoConc
  /\ NoDedupe
  /\ \E n \in 0..MaxStickers : stickers = [k \in 1..n |-> k]
  /\ wpc = [unstarted |-> concurrency, returned |-> 0]
  /\ idx = [k \in 1..Len(stickers) |-> "none"]
  /\ oneUrl = 0
  /\ saved = [k \in 1..Len(stickers) |-> 0]
  /\ failed = [k \in 1..Len(stickers) |-> 0]
  /\ running = 0
  /\ ppc = "ensureDir"

PoolFrame == UNCHANGED <<entry, onFrameError, maxFrameDelayMs, dest0, pathVars, concVars,
                         dedupeVars, stickers, oneUrl, pc, ffRuns, fsVars, ffErr, exc, result,
                         file, frames, delays, pages, histVars>>

\* await ensureDir(baseDir) resolved; Promise.all(Array.from(..., worker)) calls
\* the first worker
PoolEnsureDirOk ==
  /\ ppc = "ensureDir"
  /\ ppc' = "pool"
  /\ wpc' = [wpc EXCEPT !.unstarted = @ - 1]
  /\ running' = 1
  /\ UNCHANGED <<i, idx, saved, failed>>
  /\ PoolFrame

\* await ensureDir(baseDir) rejected: saveStickerPack rejects
PoolEnsureDirFail ==
  /\ ppc = "ensureDir"
  /\ ppc' = "rejected"
  /\ UNCHANGED <<i, wpc, idx, saved, failed, running>>
  /\ PoolFrame

\* the running worker reaches an await (ret = 0) or returns (ret = 1): the next
\* worker not yet called is called; when all have been called the event loop
\* is free
Yield(ret) ==
  IF wpc.unstarted > 0
    THEN /\ wpc' = [unstarted |-> wpc.unstarted - 1, returned |-> wpc.returned + ret]
         /\ running' = 1
    ELSE /\ wpc' = [wpc EXCEPT !.returned = @ + ret]
         /\ running' = 0

WorkerLoopSkipsIndex ==
  /\ ppc = "pool"
  /\ running = 1
  /\ IF i < Len(stickers)
       THEN /\ i' = i + 2
            /\ \E urlOk \in BOOLEAN :
                 IF urlOk
                   THEN /\ idx' = [idx EXCEPT ![i + 1] = "fetch"]
                        /\ Yield(0)
                        /\ UNCHANGED failed
                   ELSE /\ failed' = [failed EXCEPT ![i + 1] = @ + 1]
                        /\ UNCHANGED <<idx, wpc, running>>
       ELSE /\ Yield(1)
            /\ UNCHANGED <<i, idx, failed>>
  /\ UNCHANGED <<saved, ppc>>
  /\ PoolFrame

\* while (i < stickers.length) { const idx = i++; ... new URL(s.url) ...
\* await fetch(s.url) }: a URL that does not parse is caught, pushed to errors,
\* and the loop goes round without an await
WorkerLoop ==
  /\ ppc = "pool"
  /\ running = 1
  /\ IF i < Len(stickers)
       THEN /\ i' = i + 1
            /\ \E urlOk \in BOOLEAN :
                 IF urlOk
                   THEN /\ idx' = [idx EXCEPT ![i + 1] = "fetch"]
                        /\ Yield(0)
                        /\ UNCHANGED failed
                   ELSE /\ failed' = [failed EXCEPT ![i + 1] = @ + 1]
                        /\ UNCHANGED <<idx, wpc, running>>
       ELSE /\ Yield(1)
            /\ UNCHANGED <<i, idx, failed>>
  /\ UNCHANGED <<saved, ppc>>
  /\ PoolFrame

\* an await of the worker holding index k - 1 settled and its continuation
\* may run
Resumes(k, at) == ppc = "pool" /\ running = 0 /\ idx[k] = at

\* the catch block: errors.push({id, error}); back to the loop test
WorkerCatch(k) ==
  /\ failed' = [failed EXCEPT ![k] = @ + 1]
  /\ idx' = [idx EXCEPT ![k] = "none"]
  /\ running' = 1
  /\ UNCHANGED <<i, wpc, saved, ppc>>
  /\ PoolFrame

\* fetch resolved with res.ok; res.arrayBuffer() is awaited
WorkerFetchOk(k) ==
  /\ Resumes(k, "fetch")
  /\ idx' = [idx EXCEPT ![k] = "body"]
  /\ UNCHANGED <<i, wpc, saved, failed, running, ppc>>
  /\ PoolFrame

\* fetch rejected, or resolved with !res.ok
WorkerFetchFail(k) == Resumes(k, "fetch") /\ WorkerCatch(k)

\* arrayBuffer() resolved; fs.writeFile is awaited
WorkerBodyOk(k) ==
  /\ Resumes(k, "body")
  /\ idx' = [idx EXCEPT ![k] = "write"]
  /\ UNCHANGED <<i, wpc, saved, failed, running, ppc>>
  /\ PoolFrame

WorkerBodyFail(k) == Resumes(k, "body") /\ WorkerCatch(k)

\* fs.writeFile resolved: results.push({id, path}); back to the loop test
WorkerWriteOk(k) ==
  /\ Resumes(k, "write")
  /\ saved' = [saved EXCEPT ![k] = @ + 1]
  /\ idx' = [idx EXCEPT ![k] = "none"]
  /\ running' = 1
  /\ UNCHANGED <<i, wpc, failed, ppc>>
  /\ PoolFrame

WorkerWriteFail(k) == Resumes(k, "write") /\ WorkerCatch(k)

\* every worker promise has resolved: saveStickerPack returns {baseDir, saved, failed}
PoolResolve ==
  /\ ppc = "pool"
  /\ wpc.returned = concurrency
  /\ ppc' = "resolved"
  /\ UNCHANGED <<i, wpc, idx, saved, failed, running>>
  /\ PoolFrame

PoolNext ==
  \/ PoolEnsureDirOk \/ PoolEnsureDirFail \/ PoolResolve
  \/ WorkerLoop
  \/ \E k \in DOMAIN idx :
       \/ WorkerFetchOk(k) \/ WorkerFetchFail(k)
       \/ WorkerBodyOk(k) \/ WorkerBodyFail(k)
       \/ WorkerWriteOk(k) \/ WorkerWriteFail(k)

PoolSpec == PoolInit /\ [][PoolNext]_vars

\* --------------------------------------- the sequential saveStickerPack (V2)
\* part_000:244-304 with downloadTo of helpers.js:33-42.  One sticker after the
\* other, one variant URL after the other; the conversion apngToWebpSibling is
\* taken here by its outcome only (it resolves or it rejects).
MaxPack == 2
NoUrl == ""

\* the URLs a sticker record can carry: "anim" ends in animation.png, "stat"
\* does not, "bad" is a string new URL() rejects
StickerShapes ==
  [animationUrl : {NoUrl, "anim"}, url : {"anim", "stat"},
   staticUrl : {NoUrl, "stat"}, fallbackStaticUrl : {NoUrl, "bad"}]

RECURSIVE UniqUpTo(_, _)
\* .filter(Boolean).filter((v, i, arr) => arr.indexOf(v) === i) over the
\* first n elements of f
UniqUpTo(f, n) ==
  IF n = 0 THEN <<>>
  ELSE LET r == UniqUpTo(f, n - 1)
       IN IF f[n] = NoUrl \/ (\E j \in 1..(n - 1) : f[j] = f[n])
            THEN r
            ELSE Append(r, f[n])

\* const urls = [s.animationUrl, s.url, s.staticUrl, s.fallbackStaticUrl]...
Urls(s) == UniqUpTo(<<s.animationUrl, s.url, s.staticUrl, s.fallbackStaticUrl>>, 4)

\* new URL(u) in urlParts accepts u
UrlParses(u) == u # "bad"
\* /animation\.png(?:$|\?)/i.test(oneUrl)
IsAnimationUrl(u) == u = "anim"

SeqInit ==
  /\ entry = "saveStickerPackV2"
  /\ onFrameError = "throw"
  /\ maxFrameDelayMs = Undef
  /\ file = NoFile
  /\ pc = "pack"
  /\ AtRest
  /\ NoPaths
  /\ NoConc
  /\ NoDedupe
  /\ stickers \in SeqsUpTo(StickerShapes, MaxPack)
  /\ wpc = <<>> /\ idx = <<>> /\ running = 0
  /\ oneUrl = 0
  /\ saved = <<>>
  /\ failed = <<>>
  /\ ppc = "packDir"

SeqFrame == UNCHANGED <<entry, onFrameError, maxFrameDelayMs, dest0, pathVars, concVars,
                        dedupeVars, stickers, wpc, idx, running, pc, ffRuns, fsVars,
                        ffErr, exc, result, file, frames, delays, pages, histVars>>

\* the sticker and the variant URL the loops are at
CurSticker == stickers[i]
CurUrl == Urls(CurSticker)[oneUrl]

\* await fs.mkdir(absPackDir, { recursive: true }) resolved
SeqPackDirOk ==
  /\ ppc = "packDir"
  /\ ppc' = "sticker"
  /\ UNCHANGED <<i, oneUrl, saved, failed>>
  /\ SeqFrame

\* await fs.mkdir(absPackDir) rejected: saveStickerPack rejects
SeqPackDirFail ==
  /\ ppc = "packDir"
  /\ ppc' = "rejected"
  /\ UNCHANGED <<i, oneUrl, saved, failed>>
  /\ SeqFrame

\* for (const s of stickers): the next sticker, or the return after the last
SeqSticker ==
  /\ ppc = "sticker"
  /\ IF i < Len(stickers)
       THEN i' = i + 1 /\ oneUrl' = 0 /\ ppc' = "url"
       ELSE ppc' = "resolved" /\ UNCHANGED <<i, oneUrl>>
  /\ UNCHANGED <<saved, failed>>
  /\ SeqFrame

\* catch (e) { errors.push({ id: s.id, ... }) }: on to the next sticker
SeqCatch ==
  /\ failed' = Append(failed, [id |-> i])
  /\ ppc' = "sticker"
  /\ UNCHANGED <<i, saved>>
  /\ SeqFrame

\* results.push({ id: s.id, variantUrl: oneUrl, ... }): on to the next URL
SeqPush ==
  /\ saved' = Append(saved, [id |-> i, variantUrl |-> CurUrl])
  /\ ppc' = "url"
  /\ UNCHANGED <<i, oneUrl, failed>>
  /\ SeqFrame

\* for (const oneUrl of urls): urlParts(oneUrl), then downloadTo awaits
\* fs.mkdir(absDir); after the last URL the try block ends
SeqUrl ==
  /\ ppc = "url"
  /\ IF oneUrl < Len(Urls(CurSticker))
       THEN /\ oneUrl' = oneUrl + 1
            /\ IF UrlParses(Urls(CurSticker)[oneUrl + 1])
                 THEN /\ ppc' = "mkdir"
                      /\ UNCHANGED <<i, saved, failed>>
                      /\ SeqFrame
                 ELSE SeqCatch
       ELSE /\ ppc' = "sticker"
            /\ UNCHANGED <<i, oneUrl, saved, failed>>
            /\ SeqFrame

\* an await of downloadTo resolved and the next one is reached
SeqAwaitOk(at, next) ==
  /\ ppc = at
  /\ ppc' = next
  /\ UNCHANGED <<i, oneUrl, saved, failed>>
  /\ SeqFrame

\* an await of downloadTo rejected (or fetch answered !res.ok)
SeqAwaitFail(at) == ppc = at /\ UNCHANGED oneUrl /\ SeqCatch

SeqMkdirOk == SeqAwaitOk("mkdir", "fetch")
SeqMkdirFail == SeqAwaitFail("mkdir")
SeqFetchOk == SeqAwaitOk("fetch", "body")
SeqFetchFail == SeqAwaitFail("fetch")
SeqBodyOk == SeqAwaitOk("body", "write")
SeqBodyFail == SeqAwaitFail("body")

\* fs.writeFile resolved and downloadTo returns: an animation URL goes on to
\* await apngToWebpSibling, any other straight to results.push
SeqWriteOk ==
  /\ ppc = "write"
  /\ IF IsAnimationUrl(CurUrl)
       THEN /\ ppc' = "webp"
            /\ UNCHANGED <<i, oneUrl, saved, failed>>
            /\ SeqFrame
       ELSE SeqPush

SeqWriteFail == SeqAwaitFail("write")

\* await apngToWebpSibling(apngPath, oneUrl) resolved
SeqWebpOk == ppc = "webp" /\ SeqPush

SeqWebpFailRethrows == ppc = "webp" /\ UNCHANGED oneUrl /\ SeqCatch

\* await apngToWebpSibling rejected: catch (error) { console.log(error) }
SeqWebpFail == ppc = "webp" /\ SeqPush

SeqNext ==
  \/ SeqPackDirOk \/ SeqPackDirFail
  \/ SeqSticker \/ SeqUrl
  \/ SeqMkdirOk \/ SeqMkdirFail
  \/ SeqFetchOk \/ SeqFetchFail
  \/ SeqBodyOk \/ SeqBodyFail
  \/ SeqWriteOk \/ SeqWriteFail
  \/ SeqWebpOk \/ SeqWebpFail

SeqSpec == SeqInit /\ [][SeqNext]_vars

\* ================================================================ properties
IsPrefix(s, t) == Len(s) <= Len(t) /\ SubSeq(t, 1, Len(s)) = s
Last(s) == s[Len(s)]
AllFailed == \A s \in DOMAIN outcome : outcome[s] = "failed"
InProcess == entry \in {"apngToGif", "convertApngToGif"}
\* the frame loop of the in-process encoder has been entered on this input
Animated == file.decode = "ok" /\ file.framesIsArray /\ Len(file.frames) > 0
\* 0-based indices of the frames whose pixel buffer is missing or mis-sized
BadFrames ==
  {k \in 0..(Len(file.frames) - 1) :
     k + 1 > Len(file.rgba) \/ file.rgba[k + 1] = Undef \/ file.rgba[k + 1] # FrameLen}
\* the failure of the in-process encoder as its caller sees it
InProcessFailure ==
  IF entry = "apngToGif" THEN IF pc = "upng_thrown" THEN exc.message ELSE <<>>
  ELSE IF result.kind = "rejected" THEN result.message ELSE <<>>
InProcessFailed ==
  IF entry = "apngToGif" THEN outcome["upng"] = "failed" ELSE result.kind = "rejected"
\* the in-process encoder has created or modified the destination
InProcessWrote ==
  IF entry = "apngToGif" THEN "upng" \in writers ELSE dest \in {"gifwrap", "gifwrap-partial"}

\* C1: in every call of apngToGif the strategies attempted so far are a prefix
\* of ffmpeg, upng, apng2gif; every attempted strategy but the last has failed
\* (none runs beside another); once a strategy has succeeded it is the last one
\* attempted and the call has resolved with {out: destination}.
C1_StrategyOrder ==
  entry = "apngToGif" =>
    /\ IsPrefix(attempts, Strategies)
    /\ \A k \in 1..Len(attempts) : k < Len(attempts) => outcome[attempts[k]] = "failed"
    /\ \A s \in DOMAIN outcome :
         outcome[s] # "none" <=> \E k \in 1..Len(attempts) : attempts[k] = s
    /\ \A s \in DOMAIN outcome :
         outcome[s] = "ok" => Last(attempts) = s /\ result = Resolved("dest")
    /\ result.kind = "resolved" =>
         Len(attempts) > 0 /\ outcome[Last(attempts)] = "ok" /\ result.out = "dest"

C1_Witness ==
  /\ entry = "apngToGif"
  /\ attempts = <<"ffmpeg", "upng">>
  /\ outcome["ffmpeg"] = "failed"
  /\ outcome["upng"] = "ok"
  /\ result = Resolved("dest")

\* C2: when all three strategies of apngToGif have failed the call is rejected,
\* never resolved, and the rejection's message is "[apng2gif] failed: "
\* followed by the third strategy's failure message.
C2_TotalFailureRejects ==
  (entry = "apngToGif" /\ AllFailed) =>
    /\ result.kind = "rejected"
    /\ result.message =
         <<"[apng2gif]", "failed:">>
           \o (IF lastErr.message = <<>> THEN <<"Error">> ELSE lastErr.message)
    /\ Includes(result.message, lastErr.message)

C2_Witness ==
  /\ entry = "apngToGif"
  /\ AllFailed
  /\ lastErr.message = <<"Invalid", "APNG">>
  /\ result.kind = "rejected"

\* C3 as claimed: apngToGif rejects only when all three strategies have been
\* attempted and every one of them failed.
C3_OnlyExhaustionRejects ==
  (entry = "apngToGif" /\ result.kind = "rejected") =>
    attempts = Strategies /\ AllFailed

\* C3 amended: apngToGif rejects only when creating the destination's directory
\* failed before any strategy was attempted, or when all three strategies were
\* attempted and failed; a failure of the first or second strategy is caught
\* and followed by an attempt of the next strategy.
C3_RejectsOnMkdirOrExhaustion ==
  entry = "apngToGif" =>
    /\ result.kind = "rejected" =>
         \/ attempts = <<>> /\ ~mkdirDone /\ Error(result.message) \in MkdirErrors
         \/ attempts = Strategies /\ AllFailed
    /\ pc \in {"ff_thrown", "upng_thrown"} => result.kind = "none"
    /\ (outcome["ffmpeg"] = "failed" /\ pc # "ff_thrown") =>
         Len(attempts) >= 2 /\ attempts[2] = "upng"
    /\ (outcome["upng"] = "failed" /\ pc # "upng_thrown") =>
         Len(attempts) = 3 /\ attempts[3] = "apng2gif"

C3_Witness ==
  /\ entry = "apngToGif"
  /\ result.kind = "rejected"
  /\ attempts = <<>>
  /\ pc = "done"

\* C4: in every run of apngToGif at most one strategy has created or modified
\* the destination file, and no strategy that failed has done so.
C4_OnlySuccessfulStrategyWrites ==
  entry = "apngToGif" =>
    /\ Cardinality(writers) <= 1
    /\ \A s \in writers : outcome[s] # "failed"

\* C5: if the destination did not exist before apngToGif was called and all
\* three strategies failed, the destination does not exist afterwards.
C5_NoDestAfterTotalFailure ==
  (entry = "apngToGif" /\ dest0 = "absent" /\ AllFailed /\ result.kind = "rejected") =>
    dest = "absent"

\* C6: at every entry point, creating the destination's parent directory has
\* completed before the first write to a file of that directory is started.
C6_MkdirBeforeWrite ==
  writeStarted # {} => mkdirDone

\* C7: on every exit path of tryFfmpeg (success, palettegen failure,
\* paletteuse failure) removal of the palette file is attempted, and the
\* settling of that removal changes neither the strategy's outcome nor the
\* call's result.
C7_PaletteRemovalOnEveryExit ==
  /\ []((entry = "apngToGif" /\ outcome["ffmpeg"] \in {"ok", "failed"}) =>
          unlinkState # "none")
  /\ [][(unlinkState = "pending" /\ unlinkState' # "pending") =>
          (outcome' = outcome /\ result' = result /\ pc' = pc)]_vars

\* the diagnostic phrases as the claim quotes them, matched case-insensitively
C8_ClaimedPhrases ==
  { <<"not", "yet", "implemented">>, <<"in-stream", "tag">>,
    <<"unspecified", "pixel", "format">>,
    <<"could", "not", "find", "codec", "parameters">>,
    <<"invalid", "data", "found">> }
C8_LowerTok(t) ==
  CASE t = "Not" -> "not" [] t = "In-stream" -> "in-stream" [] t = "Could" -> "could"
    [] t = "Invalid" -> "invalid" [] t = "FFmpeg" -> "ffmpeg"
    [] t = "Permission" -> "permission" [] t = "Command" -> "command"
    [] OTHER -> t
C8_Lower(text) == [k \in 1..Len(text) |-> C8_LowerTok(text[k])]
\* the five literal substrings of the source
C8_SourcePhrases ==
  { <<"Not", "yet", "implemented", "in", "FFmpeg">>, <<"In-stream", "tag">>,
    <<"unspecified", "pixel", "format">>,
    <<"Could", "not", "find", "codec", "parameters">>,
    <<"Invalid", "data", "found", "when", "processing", "input">> }
C8_Pass == IF "dest" \in writeStarted THEN "paletteuse" ELSE "palettegen"

\* C8 as claimed: a failed ffmpeg run is classified 'ffmpeg-not-implemented'
\* exactly when its error-stream text contains one of the phrases "not yet
\* implemented", "in-stream tag", "unspecified pixel format", "could not find
\* codec parameters", "invalid data found".
C8_ClaimedClassification ==
  (entry = "apngToGif" /\ pc = "ff_thrown") =>
    ((exc.message = <<"ffmpeg-not-implemented">>)
       <=> \E p \in C8_ClaimedPhrases : Includes(C8_Lower(ffErr.stderr), p))

\* C8 amended: with err the error-stream text, or the error's message when that
\* text is empty, a failed ffmpeg run (either pass) throws
\* 'ffmpeg-not-implemented' exactly when err contains, case-sensitively, one of
\* the five full substrings of the source, and 'ffmpeg <pass> failed: err'
\* otherwise; in both cases the in-process encoder is attempted next.
C8_Classification ==
  entry = "apngToGif" =>
    /\ pc = "ff_thrown" =>
         LET err == IF ffErr.stderr = <<>> THEN ffErr.message ELSE ffErr.stderr
         IN IF \E p \in C8_SourcePhrases : Includes(err, p)
              THEN exc.message = <<"ffmpeg-not-implemented">>
              ELSE exc.message = <<"ffmpeg", C8_Pass, "failed:">> \o err
    /\ pc = "ff_thrown" => result.kind = "none" /\ attempts = <<"ffmpeg">>
    /\ (outcome["ffmpeg"] = "failed" /\ pc # "ff_thrown") =>
         Len(attempts) >= 2 /\ attempts[2] = "upng"

C8_Witness ==
  /\ entry = "apngToGif"
  /\ pc = "ff_thrown"
  /\ ffErr.stderr = <<"in.png:", "Invalid", "data", "found", "when", "processing", "input">>
  /\ exc.message = <<"ffmpeg-not-implemented">>

\* C9: in the frame loop of the in-process encoder frames are visited in
\* order; a frame whose pixel buffer is missing or mis-sized is never built;
\* with onFrameError = "skip" the loop goes on to the next frame and visits
\* them all; with any other value the first bad frame i ends the attempt with
\* an error naming i, no later frame is visited, nothing is handed to the
\* container encoder and the encoder does not write the destination.
C9_FramePolicy ==
  (InProcess /\ Len(processed) > 0) =>
    /\ Animated
    /\ processed = [k \in 1..Len(processed) |-> k - 1]
    /\ \A b \in BadFrames : \A j \in 1..Len(frames) : frames[j].bitmap # b
    /\ onFrameError = "skip" =>
         /\ i = Len(processed)
         /\ pc \notin {"upng_build", "cv_build"} => Len(processed) = Len(file.frames)
         /\ \A k \in 0..(Len(processed) - 1) :
              k \notin BadFrames => \E j \in 1..Len(frames) : frames[j].bitmap = k
    /\ (onFrameError # "skip" /\ BadFrames # {}) =>
         LET b == MinOf(BadFrames)
         IN /\ Len(processed) <= b + 1
            /\ Len(processed) = b + 1 =>
                 /\ InProcessFailed
                 /\ encoded = NotEncoded
                 /\ ~InProcessWrote
                 /\ pc \in {"upng_thrown", "done"} =>
                      \/ entry = "apngToGif" /\ pc = "done"
                      \/ Includes(InProcessFailure,
                                  IF entry = "apngToGif"
                                    THEN <<"build-frame[">> \o NumToks(b) \o <<"]-failed:">>
                                    ELSE <<"Building", "frame[">> \o NumToks(b)
                                           \o <<"]", "failed:">>)

C9_Witness ==
  /\ entry = "apngToGif"
  /\ onFrameError = "skip"
  /\ Len(file.frames) = 2
  /\ BadFrames = {0}
  /\ processed = <<0, 1>>
  /\ Len(frames) = 1
  /\ frames[1].bitmap = 1

\* C10: with onFrameError = "skip" and n >= 2 frames of which exactly one is
\* bad, the in-process encoder hands n-1 frames to the container encoder; with
\* every frame bad it fails with 'no valid frames' without encoding or writing;
\* it never encodes or writes a GIF of zero frames.
C10_FrameCount ==
  InProcess =>
    /\ encoded # NotEncoded => Len(encoded) >= 1
    /\ InProcessWrote => (encoded # NotEncoded /\ Len(encoded) >= 1)
    /\ (onFrameError = "skip" /\ Animated /\ Len(processed) = Len(file.frames)
          /\ pc \notin {"upng_build", "cv_build"}) =>
         /\ (Len(file.frames) >= 2 /\ Cardinality(BadFrames) = 1) =>
              (encoded # NotEncoded /\ Len(encoded) = Len(file.frames) - 1)
         /\ Cardinality(BadFrames) = Len(file.frames) =>
              /\ encoded = NotEncoded
              /\ ~InProcessWrote
              /\ InProcessFailed
              /\ pc \in {"upng_thrown", "done"} =>
                   \/ entry = "apngToGif" /\ pc = "done"
                   \/ InProcessFailure = <<"no-valid-frames">>
                   \/ Includes(InProcessFailure, <<"No", "valid", "frames", "to", "encode.">>)

C10_Witness ==
  /\ entry = "apngToGif"
  /\ onFrameError = "skip"
  /\ Len(file.frames) = 2
  /\ Cardinality(BadFrames) = 1
  /\ Len(encoded) = 1
  /\ dest = "upng"

\* C11: for every frame duration d (0 and missing included) and every
\* optional clamp m, the GIF delay built by either in-process encoder is at
\* least 1 centisecond and is the conversion to centiseconds (nearest, halves
\* up) of min(d, m) when m is given, of d otherwise: the clamp comes first, so
\* d = 2500 with m = 1000 gives 100 centiseconds.
C11_DelayFloorAndClampFirst ==
  pc = "delay_out" =>
    LET d == file.frames[1].delay
        m == maxFrameDelayMs
        d0 == IF d = Undef THEN 0 ELSE d
        c == IF m # Undef /\ m < d0 THEN m ELSE d0
        cs == frames[1].delayCentisecs
    IN /\ cs >= 1
       /\ c < 5 => cs = 1
       /\ c >= 5 => (10 * cs - 5 <= c /\ c < 10 * cs + 5)
       /\ (d = 2500 /\ m = 1000) => (cs = 100 /\ 10 * cs = 1000)

C11_Witness ==
  /\ pc = "delay_out"
  /\ entry = "apngToGif"
  /\ file.frames[1].delay = 2500
  /\ maxFrameDelayMs = 1000
  /\ frames[1].delayCentisecs = 100

\* the position of the dot that starts the last extension of name n: the last
\* dot, unless it is the first character; 0 if there is none
LastExtensionDot(n) ==
  IF \E k \in 2..Len(n) : n[k] = "."
    THEN CHOOSE k \in 2..Len(n) : n[k] = "." /\ \A j \in (k + 1)..Len(n) : n[j] # "."
    ELSE 0

ValidStatic ==
  /\ file.sig /\ file.decode = "ok" /\ ~file.rgbaThrows
  /\ frameCountOf(file) = 0
  /\ Len(file.rgba) = 1 /\ file.rgba[1] = FrameLen

\* C12: on a valid static input (no animation frames, exactly one RGBA buffer
\* of width*height*4 bytes) the in-process encoder, once past its build step,
\* has built exactly one frame of 10 centiseconds (100 ms) and handed exactly
\* that to the container encoder, never entering the frame loop and never
\* failing in the guards or the build, whatever onFrameError and
\* maxFrameDelayMs are.
C12_StaticOneFrame ==
  (InProcess /\ ValidStatic
     /\ pc \notin {"upng_check", "upng_build", "cv_check", "cv_build"}) =>
    /\ frames = <<[bitmap |-> 0, delayCentisecs |-> 10]>>
    /\ encoded = frames
    /\ processed = <<>>
    /\ frames[1].delayCentisecs * 10 = 100

C12_Witness ==
  /\ entry = "apngToGif"
  /\ ValidStatic
  /\ onFrameError = "skip"
  /\ maxFrameDelayMs = 1000
  /\ Len(encoded) = 1
  /\ encoded[1].delayCentisecs = 10
  /\ dest = "upng"

\* the codec decoded the input and returned a number of RGBA buffers that
\* differs from the declared frame count (0 counted as 1)
CountMismatch ==
  /\ file.sig /\ file.decode = "ok" /\ ~file.rgbaThrows
  /\ Len(file.rgba) # Max(1, frameCountOf(file))

\* C14: when the number of RGBA buffers differs from the declared frame count
\* (taken as 1 when it is 0), the in-process encoder, once past its guards, has
\* failed with the frame-count-mismatch error naming both counts, having built
\* no frame, visited no frame, handed nothing to the container encoder and not
\* written the destination.
C14_CountMismatchFailsEarly ==
  (InProcess /\ CountMismatch /\ pc \notin {"upng_check", "cv_check"}) =>
    /\ InProcessFailed
    /\ frames = <<>>
    /\ processed = <<>>
    /\ encoded = NotEncoded
    /\ ~InProcessWrote
    /\ pc \in {"upng_thrown", "done"} =>
         \/ entry = "apngToGif" /\ pc = "done"
         \/ InProcessFailure =
              <<"rgba-mismatch:", "frames=">> \o NumToks(frameCountOf(file))
                \o <<"rgba=">> \o NumToks(Len(file.rgba))
         \/ Includes(InProcessFailure,
                     <<"RGBA", "frames", "mismatch:", "frames=">>
                       \o NumToks(frameCountOf(file)) \o <<",", "rgba=">>
                       \o NumToks(Len(file.rgba)))

C14_Witness ==
  /\ entry = "apngToGif"
  /\ CountMismatch
  /\ Len(file.frames) = 2
  /\ Len(file.rgba) = 1
  /\ pc = "upng_thrown"
  /\ exc.message = <<"rgba-mismatch:", "frames=", "2", "rgba=", "1">>

\* the bytes have been handed to UPNG's decode(): behind the signature check
\* in the two in-process encoders, unconditionally in download()
DecoderInvoked ==
  /\ file # NoFile
  /\ IF entry = "apngToWebpSibling"
       THEN pc \in {"wp_write", "done"}
       ELSE file.sig /\ pc \notin {"upng_check", "cv_check"}

\* the path that decodes the bytes has created or modified its destination
DecodingPathWrote ==
  IF entry = "apngToWebpSibling" THEN dest \in {"webp", "webp-partial"} \/ pc = "wp_write"
  ELSE InProcessWrote

\* C13: on every decoding path (the in-process encoder of apngToGif and of
\* convertApngToGif, and the WebP conversion) a buffer without the 8-byte PNG
\* signature is rejected before the decoder is invoked and without any write
\* of the output.
C13_BadSignatureRejectedEverywhere ==
  (file # NoFile /\ ~file.sig /\ pc \notin {"upng_check", "cv_check", "wp_decode"}) =>
    /\ ~DecoderInvoked
    /\ ~DecodingPathWrote
    /\ IF entry = "apngToWebpSibling" THEN result.kind = "rejected" ELSE InProcessFailed

\* the WebP conversion has computed its per-frame delays
WpDelaysBuilt ==
  /\ entry = "apngToWebpSibling"
  /\ file # NoFile
  /\ pc \in {"wp_write", "done"}
  /\ Len(delays) = Len(file.frames)

\* C15: in the WebP conversion a frame without a native millisecond delay
\* gets the delay round(1000 * numerator / denominator) ms with the denominator
\* taken as 100 when it is absent, so numerator 1 with no denominator gives
\* 10 ms.
C15_DefaultDenominator100 ==
  WpDelaysBuilt =>
    \A k \in 1..Len(delays) :
      LET f == file.frames[k]
          num == IF f.delayNum = Undef THEN 1 ELSE f.delayNum
          den == IF f.delayDen = Undef THEN 100 ELSE f.delayDen
      IN /\ (f.delay = Undef /\ den # 0) => delays[k] = Max(10, RoundDiv(num * 1000, den))
         /\ (f.delay = Undef /\ f.delayNum = 1 /\ f.delayDen = Undef) => delays[k] = 10

\* C16: in the WebP conversion every per-frame delay handed to the encoder is a
\* number of at least 10 ms, whatever the frame's native delay, numerator and
\* denominator are.
C16_EveryDelayAtLeast10 ==
  WpDelaysBuilt => \A k \in 1..Len(delays) : delays[k] # NaN /\ delays[k] >= 10

\* call p ran as it would alone: its paletteuse run read the palette p itself
\* generated, its destination was quantized with that palette, and no other
\* call wrote or removed p's palette file
RanAsAlone(p) ==
  /\ cUsed[p] \in {"none", p}
  /\ cDest[p].palette \in {"none", p}
  /\ cTouched[PalettePath(cOut[p])] \subseteq {p}

\* C18: two concurrent calls of apngToGif for different source/destination
\* pairs never interfere: under every interleaving each runs as it would alone.
C18_NeverInterfere ==
  \A p \in DOMAIN cpc : RanAsAlone(p)

\* C18, amended: two concurrent calls of apngToGif whose destination
\* directories differ never interfere: under every interleaving each runs as
\* it would alone.
C18_NoInterferenceAcrossDirectories ==
  \A p \in DOMAIN cpc : \A q \in DOMAIN cpc :
    dirname(cOut[p]) # dirname(cOut[q]) => (RanAsAlone(p) /\ RanAsAlone(q))

C18_Witness ==
  /\ cpc = [p \in Procs |-> "done"]
  /\ dirname(cOut["p"]) # dirname(cOut["q"])
  /\ cDest = [p \in Procs |-> [by |-> "ffmpeg", palette |-> p]]
  /\ \A p \in Procs : cUnlink[p] = "done"

\* C19: two concurrent calls share a palette path exactly when their
\* destinations lie in the same directory, the path being
\* <dir>/___palette.tmp.png; a paletteuse run reads a palette that is not its
\* own (overwritten, or already removed) only when another call with the same
\* destination directory wrote or removed that file.
C19_PaletteSharedWithinDirectoryOnly ==
  \A p \in DOMAIN cpc :
    /\ PalettePath(cOut[p]) = dirname(cOut[p]) \o <<"/">> \o PaletteName
    /\ \A q \in DOMAIN cpc :
         (PalettePath(cOut[p]) = PalettePath(cOut[q])) <=> (dirname(cOut[p]) = dirname(cOut[q]))
    /\ cUsed[p] \notin {"none", p} =>
         \E q \in DOMAIN cpc \ {p} :
           /\ dirname(cOut[q]) = dirname(cOut[p])
           /\ q \in cTouched[PalettePath(cOut[p])]

\* one run read the palette the other call generated, the other found the
\* palette already removed
C19_Witness ==
  /\ pc = "concurrent"
  /\ dirname(cOut["p"]) = dirname(cOut["q"])
  /\ cUsed["p"] = "q"
  /\ cUsed["q"] = "absent"

\* C20: within one ffmpeg attempt the tool is run at most twice, palettegen
\* first; paletteuse is started only when palettegen has exited successfully;
\* after a palettegen failure no second run exists and the strategy has not
\* touched the destination; a successful attempt is exactly the two runs.
C20_TwoOrderedRuns ==
  entry = "apngToGif" =>
    /\ Len(ffRuns) <= 2
    /\ \A k \in 1..Len(ffRuns) : ffRuns[k].pass = <<"palettegen", "paletteuse">>[k]
    /\ Len(ffRuns) = 2 => ffRuns[1].status = "ok"
    /\ (Len(ffRuns) >= 1 /\ ffRuns[1].status = "failed") =>
         /\ Len(ffRuns) = 1
         /\ "ffmpeg" \notin writers
         /\ outcome["ffmpeg"] = "failed"
    /\ outcome["ffmpeg"] = "ok" =>
         /\ Len(ffRuns) = 2
         /\ \A k \in 1..2 : ffRuns[k].status = "ok"
    /\ "ffmpeg" \in writers => Len(ffRuns) = 2
    /\ Len(ffRuns) = 0 <=> outcome["ffmpeg"] = "none"

C20_Witness ==
  /\ entry = "apngToGif"
  /\ outcome["ffmpeg"] = "failed"
  /\ Len(ffRuns) = 1
  /\ ffRuns[1].status = "failed"
  /\ pc = "done"

\* the in-process encoder has failed at a step before its write: reading,
\* signature check, decode, frame-count check, frame assembly or encoding
FailedBeforeWrite ==
  /\ InProcess
  /\ IF entry = "apngToGif" THEN pc = "upng_thrown" ELSE result.kind = "rejected"
  /\ \A e \in WriteErrors \cup MkdirErrors : ~Includes(InProcessFailure, e.message)

\* the in-process encoder is at a step before its write
BeforeWritePcs ==
  {"upng_read", "upng_check", "upng_build", "upng_encode",
   "cv_read", "cv_check", "cv_build", "cv_encode"}

C24_SameDelayFloorBeforeConvert ==
  pc = "delay_out" =>
    LET d == file.frames[1].delay
        m == maxFrameDelayMs
        d0 == IF d = Undef THEN 0 ELSE d
        c == IF m # Undef /\ m < d0 THEN m ELSE d0
        floored == IF c < 10 THEN 10 ELSE c
    IN /\ frames[1].delayCentisecs = (floored + 5) \div 10
       /\ toCS(DelayOf(file, 1, m)) = toCentis(CvDelayOf(file, 1), m)

C24_Witness ==
  /\ pc = "delay_out"
  /\ entry = "convertApngToGif"
  /\ file.frames[1].delay = 15
  /\ maxFrameDelayMs = 14
  /\ frames[1].delayCentisecs = 1

\* the WebP conversion has handed its stacked frames and delays to the encoder
\* for an input whose pixel buffers match its declared frames (one buffer for a
\* static input)
WpEncoderCalled ==
  /\ entry = "apngToWebpSibling"
  /\ file # NoFile
  /\ pages > 0
  /\ pc \in {"wp_write", "done"}
  /\ Len(file.rgba) = Max(1, frameCountOf(file))

\* C25: in the WebP conversion the number of delays handed to the encoder
\* equals the number of pixel frames stacked into the output, for every
\* decodable input; a static input is encoded as one frame with one delay.
C25_OneDelayPerPage ==
  WpEncoderCalled =>
    /\ Len(delays) = pages
    /\ frameCountOf(file) = 0 => (pages = 1 /\ Len(delays) = 1)

\* position in results, among the first n records, of the record the dedupe
\* keeps for id: the first ANIMATED one if there is one, else the first one
KeptIndex(id, n) ==
  LET anim == {k \in 1..n : results[k].id = id /\ results[k].type = "ANIMATED"}
      any == {k \in 1..n : results[k].id = id}
  IN IF anim # {} THEN MinOf(anim) ELSE MinOf(any)
FirstIndex(id, n) == MinOf({k \in 1..n : results[k].id = id})

\* C26: after the dedupe step (and after every iteration of it, for the
\* records taken so far) the Map holds exactly one record per distinct id, in
\* order of each id's first appearance; the record of an id is the first
\* ANIMATED record of that id if there is one, else its first STATIC record;
\* an ANIMATED record, once in the Map, is never replaced.
C26_DedupeById ==
  /\ [](pc \in {"dd_loop", "dd_returned"} =>
          /\ {map[k].id : k \in 1..Len(map)} = {results[k].id : k \in 1..scanned}
          /\ \A a \in 1..Len(map) : \A b \in 1..Len(map) :
               /\ (a # b => map[a].id # map[b].id)
               /\ (a < b => FirstIndex(map[a].id, scanned) < FirstIndex(map[b].id, scanned))
          /\ \A a \in 1..Len(map) : map[a] = results[KeptIndex(map[a].id, scanned)]
          /\ pc = "dd_returned" => scanned = Len(results))
  /\ [][\A a \in 1..Len(map) :
          map[a].type = "ANIMATED" => (Len(map') >= a /\ map'[a] = map[a])]_vars

C26_Witness ==
  /\ pc = "dd_returned"
  /\ Len(results) = 4
  /\ results[1].id = "22" /\ results[1].type = "STATIC"
  /\ results[2].id = "11" /\ results[2].type = "STATIC"
  /\ results[3].id = "22" /\ results[3].type = "ANIMATED"
  /\ results[4].id = "22" /\ results[4].type = "ANIMATED"
  /\ map = <<results[3], results[2]>>

\* ---- C22: the pooled saveStickerPack under every interleaving of the awaits
InFlight == {k \in DOMAIN idx : idx[k] # "none"}
EntriesOf(k) == saved[k] + failed[k]
Holders(k) == IF k \in InFlight THEN 1 ELSE 0

\* C22: at most six downloads are in flight at any time; the indices below the
\* counter i have each been claimed exactly once (each is either held by one
\* worker or has exactly one entry, in saved or in failed) and the indices from
\* i on are untouched, so none is skipped and none is processed twice; when
\* the call resolves every input sticker has exactly one entry, in saved or in
\* failed, and the entries number as many as the input stickers.
C22_PoolClaimsEachIndexOnce ==
  ppc \in {"pool", "resolved"} =>
    /\ Cardinality(InFlight) <= concurrency
    /\ Cardinality(InFlight) + running + wpc.unstarted + wpc.returned = concurrency
    /\ i <= Len(stickers)
    /\ \A k \in DOMAIN stickers :
         /\ k <= i => Holders(k) + EntriesOf(k) = 1
         /\ k > i => Holders(k) + EntriesOf(k) = 0
    /\ ppc = "resolved" =>
         /\ i = Len(stickers)
         /\ \A k \in DOMAIN stickers : EntriesOf(k) = 1
         /\ Cardinality({k \in DOMAIN stickers : saved[k] = 1})
              + Cardinality({k \in DOMAIN stickers : failed[k] = 1}) = Len(stickers)

\* the call resolved for a pack of more stickers than workers, with a saved
\* and a failed sticker
C22_Witness ==
  /\ ppc = "resolved"
  /\ Len(stickers) > concurrency
  /\ \E k \in DOMAIN stickers : saved[k] = 1
  /\ \E k \in DOMAIN stickers : failed[k] = 1

\* ---- C23: the sequential saveStickerPack goes through the whole pack
SavedCount(k, u) ==
  Cardinality({n \in 1..Len(saved) : saved[n].id = k /\ saved[n].variantUrl = u})
FailedCount(k) == Cardinality({n \in 1..Len(failed) : failed[n].id = k})
UrlSet(k) == {Urls(stickers[k])[n] : n \in 1..Len(Urls(stickers[k]))}
UrlValues == {"anim", "stat", "bad"}
\* the loop is through with sticker k
StickerDone(k) == k < i \/ (k = i /\ ppc \in {"sticker", "resolved"})
FullySaved(k) ==
  /\ FailedCount(k) = 0
  /\ \A u \in UrlValues : SavedCount(k, u) = (IF u \in UrlSet(k) THEN 1 ELSE 0)
InInputOrder(entries) ==
  \A n, m \in 1..Len(entries) : n < m => entries[n].id <= entries[m].id

InStickerLoop == ppc \in {"sticker", "url", "mkdir", "fetch", "body", "write", "webp"}
WebpEndsInPush ==
  /\ saved' = Append(saved, [id |-> i, variantUrl |-> CurUrl])
  /\ failed' = failed
  /\ ppc' = "url"

\* C23: once the pack directory exists no failure makes the call reject; the
\* stickers are taken in input order, so the entries of saved and of failed
\* are in input order, a sticker not yet reached has no entry, and the call
\* resolves only after the last sticker; every sticker the loop is through
\* with has either one saved entry for each of its distinct variant URLs and
\* no failed entry, or exactly one failed entry; and whichever way the WebP
\* conversion of an animation variant ends, the next thing that happens is
\* that variant's saved entry, with failed left as it was.
C23_SequentialPackNeverStops ==
  /\ [](ppc # "none" =>
         /\ InInputOrder(saved) /\ InInputOrder(failed)
         /\ \A k \in DOMAIN stickers :
              /\ StickerDone(k) => (FullySaved(k) \/ FailedCount(k) = 1)
              /\ k > i => (FailedCount(k) = 0 /\ \A u \in UrlValues : SavedCount(k, u) = 0)
         /\ ppc = "resolved" => i = Len(stickers))
  /\ [][InStickerLoop => ppc' # "rejected"]_vars
  /\ [][ppc = "webp" => WebpEndsInPush]_vars

\* the call resolved after a sticker that failed on its second variant, its
\* first one saved, and a later sticker with an animation variant among
\* several, all saved
C23_Witness ==
  /\ ppc = "resolved"
  /\ \E k, l \in DOMAIN stickers :
       /\ k < l
       /\ FailedCount(k) = 1
       /\ \E u \in UrlValues : SavedCount(k, u) = 1
       /\ FullySaved(l)
       /\ "anim" \in UrlSet(l)
       /\ Len(Urls(stickers[l])) >= 2

====
